---------------------------- MODULE Spec2Model ----------------------------
(***************************************************************************)
(* Regional prompts: the layer store (regionalPromptsSlice), its colour    *)
(* cycler (LayerColors), its undo grouping (regionalPromptsUndoableConfig) *)
(* and the graph splicer (addRegionalPromptsToGraph).                      *)
(*                                                                         *)
(* Strings built by template literals are sequences of string tokens:      *)
(* `${a}_${b}` is a \o b.  Numbers with a fraction (alpha, opacity) are    *)
(* counted in hundredths, so alpha 1 is 100.                               *)
(***************************************************************************)
EXTENDS Integers, Sequences, FiniteSets, TLC

\* ------------------------------------------------------------------ bounds
\* Number of actions dispatched to the store in one behaviour.
MaxSteps == 5
\* Number of consecutive calls of LayerColors.next() without an argument.
MaxCalls == 15
\* Number of actions dispatched to the undoable store in one behaviour.
MaxUndoSteps == 6
\* Number of actions dispatched to the undoable store when bbox changes, undo
\* and redo are among them.
MaxTransientSteps == 5
\* Number of actions dispatched to the undoable store when every kind of
\* action is among them.
MaxGroupSteps == 3
\* Number of layers in the store state handed to the graph splicer.
MaxSpliceLayers == 2
\* Number of actions dispatched when every action that reaches a layer's
\* bounding-box flags is enabled.
MaxFlagSteps == 4

\* ------------------------------------------------------------- store state
VARIABLES
  state,        \* RegionalPromptsState (the slice's present state)
  colorIdx,     \* LayerColors.i
  uuidCount,    \* how many uuids uuidv4() has handed out
  steps,        \* actions dispatched so far
  log,          \* the last two actions dispatched, newest first, each with
                \* the slice state it was applied to
  returned,     \* the colours returned by the calls of LayerColors.next()
                \* made in a row without an argument
  history,      \* redux-undo's history around the slice state: past, future,
                \* group, _latestUnfiltered (the present is state)
  entries,      \* per history entry made, its group and the actions folded into it
  trace,        \* the actions dispatched to the undoable store
  isSDXL,       \* addRegionalPromptsToGraph: state.generation.model?.base === 'sdxl'
  pc,           \* where the call stands: "idle", "blobs" (awaiting the blobs),
                \* "upload" (awaiting an upload), "returned", "threw"
  graph,        \* the graph handed to it: nodes by id, and the edge list
  spLayers,     \* its local layers: the filtered layers
  blobs,        \* its local blobs, as the set of the mapping's keys
  cursor,       \* the position of its for loop in spLayers
  uploads,      \* the layer ids whose mask it has uploaded, in order
  err           \* what it threw

storeVars == <<state, uuidCount, steps, log>>
cyclerVars == <<returned>>
undoVars == <<history, entries, trace>>
spliceVars == <<isSDXL, pc, graph, spLayers, blobs, cursor, uploads, err>>

vars == <<state, colorIdx, uuidCount, steps, log, returned, history, entries, trace,
          isSDXL, pc, graph, spLayers, blobs, cursor, uploads, err>>

\* The values uuidv4() returns, in the order it returns them: all different.
Uuids == <<"u1", "u2", "u3", "u4", "u5", "u6", "u7", "u8">>
\* A uuid that was never handed out.
NoUuid == "u0"

\* null and undefined, one per type of value
Null == <<>>
NoColor == [r |-> -1, g |-> -1, b |-> -1, a |-> -1]
NoRect == [x |-> 0, y |-> 0, width |-> -1, height |-> -1]

VECTOR_MASK_LAYER_NAME == "vector_mask_layer"

getVectorMaskLayerId(layerId) == <<VECTOR_MASK_LAYER_NAME, layerId>>
getVectorMaskLayerLineId(layerId, lineId) == layerId \o <<"line", lineId>>
getVectorMaskLayerRectId(layerId, lineId) == layerId \o <<"rect", lineId>>

AlphaOne == 100

COLORS == <<
  [r |-> 123, g |-> 159, b |-> 237, a |-> AlphaOne],
  [r |-> 106, g |-> 222, b |-> 106, a |-> AlphaOne],
  [r |-> 250, g |-> 225, b |-> 80, a |-> AlphaOne],
  [r |-> 233, g |-> 137, b |-> 81, a |-> AlphaOne],
  [r |-> 229, g |-> 96, b |-> 96, a |-> AlphaOne],
  [r |-> 226, g |-> 122, b |-> 210, a |-> AlphaOne],
  [r |-> 167, g |-> 116, b |-> 234, a |-> AlphaOne] >>

\* COLORS.findIndex((c) => isEqual(c, { ...currentColor, a: 1 })), 0-based, -1 if none
\* a variant of the lookup that compares the alpha as well
ColorsFindIndexWithAlpha(currentColor) ==
  LET hits == {k \in 1..Len(COLORS) : COLORS[k] = currentColor}
  IN IF hits = {} THEN -1
     ELSE (CHOOSE k \in hits : \A m \in hits : k <= m) - 1

\* COLORS.findIndex(c => isEqual(c, {...currentColor, a: 1})), 0-based, -1 when
\* there is none
ColorsFindIndex(currentColor) ==
  LET c1 == [currentColor EXCEPT !.a = AlphaOne]
      hits == {k \in 1..Len(COLORS) : COLORS[k] = c1}
  IN IF hits = {} THEN -1
     ELSE (CHOOSE k \in hits : \A m \in hits : k <= m) - 1

\* a variant that does not wrap around
LayerColorsNextIndexNoWrap(i, currentColor) ==
  LET found == IF currentColor = NoColor THEN -1 ELSE ColorsFindIndex(currentColor)
      seeded == IF found # -1 THEN found ELSE i
  IN seeded + 1

\* LayerColors.next: the value of the static index i after the call.
\* currentColor is NoColor when the argument is undefined.
LayerColorsNextIndex(i, currentColor) ==
  LET found == IF currentColor = NoColor THEN -1 ELSE ColorsFindIndex(currentColor)
      seeded == IF found # -1 THEN found ELSE i
  IN (seeded + 1) % Len(COLORS)

\* LayerColors.next: the colour returned; NoColor stands for undefined, on which
\* assert(color) throws.
LayerColorsNext(i, currentColor) ==
  LET n == LayerColorsNextIndex(i, currentColor)
  IN IF n \in 0..(Len(COLORS) - 1) THEN COLORS[n + 1] ELSE NoColor

initialRegionalPromptsState ==
  [ selectedLayerId |-> Null,
    brushSize |-> 100,
    layers |-> <<>>,
    globalMaskLayerOpacity |-> 50,
    isEnabled |-> FALSE ]

\* ---------------------------------------------------------- array helpers
\* array.findIndex(l => l.id === id), 1-based, 0 when there is none
FindIndex(layers, id) ==
  LET hits == {k \in 1..Len(layers) : layers[k].id = id}
  IN IF hits = {} THEN 0 ELSE CHOOSE k \in hits : \A m \in hits : k <= m

\* array.filter(l => l.id !== id)
RECURSIVE FilterOut(_, _)
FilterOut(layers, id) ==
  IF layers = <<>> THEN <<>>
  ELSE IF Head(layers).id = id THEN FilterOut(Tail(layers), id)
       ELSE <<Head(layers)>> \o FilterOut(Tail(layers), id)

RemoveAt(seq, k) == SubSeq(seq, 1, k - 1) \o SubSeq(seq, k + 1, Len(seq))

Swap(seq, j, k) == [seq EXCEPT ![j] = seq[k], ![k] = seq[j]]

\* common/util/arrayUtils
moveForward(layers, id) ==
  LET k == FindIndex(layers, id)
  IN IF k >= 1 /\ k < Len(layers) THEN Swap(layers, k, k + 1) ELSE layers

moveBackward(layers, id) ==
  LET k == FindIndex(layers, id)
  IN IF k > 1 THEN Swap(layers, k, k - 1) ELSE layers

moveToFront(layers, id) ==
  LET k == FindIndex(layers, id)
  IN IF k > 1 THEN <<layers[k]>> \o RemoveAt(layers, k) ELSE layers

moveToBack(layers, id) ==
  LET k == FindIndex(layers, id)
  IN IF k >= 1 /\ k < Len(layers) THEN RemoveAt(layers, k) \o <<layers[k]>> ELSE layers

\* ---------------------------------------------------------------- reducers
NewLayer(uuid, kind, color) ==
  [ id |-> getVectorMaskLayerId(uuid),
    kind |-> kind,
    isVisible |-> TRUE,
    bbox |-> NoRect,
    bboxNeedsUpdate |-> FALSE,
    objects |-> <<>>,
    previewColor |-> color,
    x |-> 0,
    y |-> 0,
    autoNegative |-> "off",
    needsPixelBbox |-> FALSE,
    textPrompt |-> [positive |-> "", negative |-> ""],
    imagePrompts |-> <<>> ]

LastColor(s) ==
  IF Len(s.layers) > 0 THEN s.layers[Len(s.layers)].previewColor ELSE NoColor

layerAdded(s, i, kind, uuid) ==
  IF kind = "vector_mask_layer"
  THEN LET layer == NewLayer(uuid, kind, LayerColorsNext(i, LastColor(s)))
       IN [s EXCEPT !.layers = Append(s.layers, layer),
                    !.selectedLayerId = layer.id]
  ELSE s

\* LayerColors.i after layerAdded
layerAddedColorIdx(s, i, kind) ==
  IF kind = "vector_mask_layer" THEN LayerColorsNextIndex(i, LastColor(s)) ELSE i

layerSelected(s, id) ==
  LET k == FindIndex(s.layers, id)
  IN IF k # 0 THEN [s EXCEPT !.selectedLayerId = s.layers[k].id] ELSE s

layerVisibilityToggled(s, id) ==
  LET k == FindIndex(s.layers, id)
  IN IF k # 0 THEN [s EXCEPT !.layers[k].isVisible = ~s.layers[k].isVisible] ELSE s

layerTranslated(s, id, x, y) ==
  LET k == FindIndex(s.layers, id)
  IN IF k # 0 THEN [s EXCEPT !.layers[k].x = x, !.layers[k].y = y] ELSE s

layerBboxChanged(s, id, bbox) ==
  LET k == FindIndex(s.layers, id)
  IN IF k # 0
     THEN [s EXCEPT !.layers[k].bbox = bbox, !.layers[k].bboxNeedsUpdate = FALSE]
     ELSE s

\* a variant of layerReset that leaves needsPixelBbox as it is
layerResetKeepPixelBbox(s, id) ==
  LET k == FindIndex(s.layers, id)
  IN IF k # 0
     THEN [s EXCEPT !.layers[k].objects = <<>>,
                    !.layers[k].bbox = NoRect,
                    !.layers[k].isVisible = TRUE,
                    !.layers[k].bboxNeedsUpdate = FALSE]
     ELSE s

layerReset(s, id) ==
  LET k == FindIndex(s.layers, id)
  IN IF k # 0
     THEN [s EXCEPT !.layers[k].objects = <<>>,
                    !.layers[k].bbox = NoRect,
                    !.layers[k].isVisible = TRUE,
                    !.layers[k].needsPixelBbox = FALSE,
                    !.layers[k].bboxNeedsUpdate = FALSE]
     ELSE s

layerDeletedKeepSelection(s, id) ==
  [s EXCEPT !.layers = FilterOut(s.layers, id)]

\* a variant that picks a new selection only when the selected layer goes
layerDeletedReselectsWhenSelectedGoes(s, id) ==
  LET rest == FilterOut(s.layers, id)
  IN [s EXCEPT !.layers = rest,
               !.selectedLayerId = IF s.selectedLayerId # id THEN s.selectedLayerId
                                   ELSE IF Len(rest) > 0 THEN rest[1].id ELSE Null]

layerDeleted(s, id) ==
  LET rest == FilterOut(s.layers, id)
  IN [s EXCEPT !.layers = rest,
               !.selectedLayerId = IF Len(rest) > 0 THEN rest[1].id ELSE Null]

layerMovedForward(s, id) == [s EXCEPT !.layers = moveForward(s.layers, id)]

layerMovedToFrontNotInverted(s, id) == [s EXCEPT !.layers = moveToFront(s.layers, id)]

\* the layers are in reverse order: to the front is to the back of the array
layerMovedToFront(s, id) == [s EXCEPT !.layers = moveToBack(s.layers, id)]

layerMovedBackward(s, id) == [s EXCEPT !.layers = moveBackward(s.layers, id)]

layerMovedToBack(s, id) == [s EXCEPT !.layers = moveToFront(s.layers, id)]

allLayersDeleted(s) == [s EXCEPT !.layers = <<>>, !.selectedLayerId = Null]

maskLayerPositivePromptChanged(s, id, prompt) ==
  LET k == FindIndex(s.layers, id)
  IN IF k # 0 THEN [s EXCEPT !.layers[k].textPrompt.positive = prompt] ELSE s

maskLayerNegativePromptChanged(s, id, prompt) ==
  LET k == FindIndex(s.layers, id)
  IN IF k # 0 THEN [s EXCEPT !.layers[k].textPrompt.negative = prompt] ELSE s

maskLayerPreviewColorChanged(s, id, color) ==
  LET k == FindIndex(s.layers, id)
  IN IF k # 0 THEN [s EXCEPT !.layers[k].previewColor = color] ELSE s

maskLayerAutoNegativeChanged(s, id, autoNegative) ==
  LET k == FindIndex(s.layers, id)
  IN IF k # 0 THEN [s EXCEPT !.layers[k].autoNegative = autoNegative] ELSE s

brushSizeChanged(s, size) == [s EXCEPT !.brushSize = size]

globalMaskLayerOpacityChanged(s, opacity) ==
  [s EXCEPT !.globalMaskLayerOpacity = opacity,
            !.layers = [k \in 1..Len(s.layers) |->
                          [s.layers[k] EXCEPT !.previewColor.a = opacity]]]

isEnabledChanged(s, enabled) == [s EXCEPT !.isEnabled = enabled]

\* the undo and redo reducers of the slice: every layer's bbox becomes stale
undo(s) ==
  [s EXCEPT !.layers = [k \in 1..Len(s.layers) |-> [s.layers[k] EXCEPT !.bboxNeedsUpdate = TRUE]]]

redo(s) ==
  [s EXCEPT !.layers = [k \in 1..Len(s.layers) |-> [s.layers[k] EXCEPT !.bboxNeedsUpdate = TRUE]]]

\* --------------------------------------------------------- mask layer reducers
isLine(obj) == obj.kind = "vector_mask_line"

\* objects.findLast(isLine) as an index, 0 when there is none
FindLastLineIndex(objects) ==
  LET hits == {k \in 1..Len(objects) : isLine(objects[k])}
  IN IF hits = {} THEN 0 ELSE CHOOSE k \in hits : \A m \in hits : m <= k

maskLayerLineAdded(s, layerId, points, tool, uuid) ==
  LET k == FindIndex(s.layers, layerId)
      l == s.layers[k]
  IN IF k # 0
     THEN [s EXCEPT
             !.layers[k].objects = Append(l.objects,
               [ kind |-> "vector_mask_line",
                 tool |-> tool,
                 id |-> getVectorMaskLayerLineId(l.id, uuid),
                 points |-> <<points[1] - l.x, points[2] - l.y, points[3] - l.x, points[4] - l.y>>,
                 strokeWidth |-> s.brushSize ]),
             !.layers[k].bboxNeedsUpdate = TRUE,
             !.layers[k].needsPixelBbox =
                 IF ~l.needsPixelBbox /\ tool = "eraser" THEN TRUE ELSE l.needsPixelBbox]
     ELSE s

\* a variant that appends only when the last object is a line
maskLayerPointsAddedLastObjectOnly(s, layerId, point) ==
  LET k == FindIndex(s.layers, layerId)
      l == s.layers[k]
  IN IF k # 0 /\ l.objects # <<>> /\ isLine(l.objects[Len(l.objects)])
     THEN [s EXCEPT
             !.layers[k].objects[Len(l.objects)].points = @ \o <<point[1] - l.x, point[2] - l.y>>,
             !.layers[k].bboxNeedsUpdate = TRUE]
     ELSE s

maskLayerPointsAdded(s, layerId, point) ==
  LET k == FindIndex(s.layers, layerId)
      l == s.layers[k]
      lastLine == FindLastLineIndex(l.objects)
  IN IF k # 0
     THEN IF lastLine = 0
          THEN s
          ELSE [s EXCEPT
                  !.layers[k].objects[lastLine].points = @ \o <<point[1] - l.x, point[2] - l.y>>,
                  !.layers[k].bboxNeedsUpdate = TRUE]
     ELSE s

\* a variant that looks the layer up and marks its bbox dirty before it looks at
\* the rectangle
maskLayerRectAddedNoZeroCheck(s, layerId, rect, uuid) ==
  LET k == FindIndex(s.layers, layerId)
      l == s.layers[k]
  IN IF k # 0
     THEN [s EXCEPT
             !.layers[k].objects =
                 IF rect.height = 0 \/ rect.width = 0 THEN @
                 ELSE Append(@, [ kind |-> "vector_mask_rect",
                                   id |-> getVectorMaskLayerRectId(l.id, uuid),
                                   x |-> rect.x - l.x,
                                   y |-> rect.y - l.y,
                                   width |-> rect.width,
                                   height |-> rect.height ]),
             !.layers[k].bboxNeedsUpdate = TRUE]
     ELSE s

maskLayerRectAdded(s, layerId, rect, uuid) ==
  LET k == FindIndex(s.layers, layerId)
      l == s.layers[k]
  IN IF rect.height = 0 \/ rect.width = 0
     THEN s
     ELSE IF k # 0
          THEN [s EXCEPT
                  !.layers[k].objects = Append(l.objects,
                    [ kind |-> "vector_mask_rect",
                      id |-> getVectorMaskLayerRectId(l.id, uuid),
                      x |-> rect.x - l.x,
                      y |-> rect.y - l.y,
                      width |-> rect.width,
                      height |-> rect.height ]),
                  !.layers[k].bboxNeedsUpdate = TRUE]
          ELSE s

\* ------------------------------------------------------------ undo grouping
LINE_1 == "LINE_1"
LINE_2 == "LINE_2"
\* groupBy's null
NoGroup == "null"

UndoLimit == 64

\* a variant of the matcher without brushSizeChanged
undoableGroupByMatcherWithoutBrushSize ==
  {"layerTranslated", "globalMaskLayerOpacityChanged", "isEnabledChanged",
   "maskLayerPositivePromptChanged", "maskLayerNegativePromptChanged",
   "maskLayerPreviewColorChanged"}

undoableGroupByMatcher ==
  {"layerTranslated", "brushSizeChanged", "globalMaskLayerOpacityChanged", "isEnabledChanged",
   "maskLayerPositivePromptChanged", "maskLayerNegativePromptChanged",
   "maskLayerPreviewColorChanged"}

\* a variant that starts every line in the same group
groupByNoFlip(action, h) ==
  IF action.type = "maskLayerLineAdded"
  THEN LINE_1
  ELSE IF action.type = "maskLayerPointsAdded" /\ (h.group = LINE_1 \/ h.group = LINE_2)
       THEN h.group
       ELSE IF action.type \in undoableGroupByMatcher THEN action.type ELSE NoGroup

groupBy(action, h) ==
  IF action.type = "maskLayerLineAdded"
  THEN IF h.group = LINE_1 THEN LINE_2 ELSE LINE_1
  ELSE IF action.type = "maskLayerPointsAdded" /\ (h.group = LINE_1 \/ h.group = LINE_2)
       THEN h.group
       ELSE IF action.type \in undoableGroupByMatcher THEN action.type ELSE NoGroup

\* a variant that lets the bbox action into the history
filterKeepsBbox(action) ==
  IF action.slice # "regionalPrompts" THEN FALSE ELSE TRUE

\* the types of the slice's actions all start with the slice's name
filter(action) ==
  IF action.slice # "regionalPrompts" THEN FALSE
  ELSE IF action.type = "layerBboxChanged" THEN FALSE
  ELSE TRUE

\* redux-undo: newHistory(past, present, future, group); the present itself is
\* the variable state.  latestIsPresent says that _latestUnfiltered and the
\* present are the same object.
newHistory(past, present, future, group) ==
  [ past |-> past, future |-> future, group |-> group,
    latestUnfiltered |-> present, latestIsPresent |-> TRUE ]

\* redux-undo: insert(history, state, limit, group)
insert(h, st, limit, group) ==
  LET historyOverflow == limit # 0 /\ limit <= Len(h.past) + 1
      pastSliced == IF historyOverflow THEN Tail(h.past) ELSE h.past
  IN newHistory(Append(pastSliced, h.latestUnfiltered), st, <<>>, group)

\* redux-undo: jumpToPast(history, history.past.length - 1), as the pair of the
\* new history and the new present
jumpToPast(h, present) ==
  IF h.past = <<>> THEN <<h, present>>
  ELSE << newHistory(SubSeq(h.past, 1, Len(h.past) - 1), h.past[Len(h.past)],
                     <<h.latestUnfiltered>> \o h.future, NoGroup),
          h.past[Len(h.past)] >>

\* redux-undo: jumpToFuture(history, 0)
jumpToFuture(h, present) ==
  IF h.future = <<>> THEN <<h, present>>
  ELSE << newHistory(Append(h.past, h.latestUnfiltered), h.future[1], Tail(h.future), NoGroup),
          h.future[1] >>

\* ----------------------------------------------------------- graph splicer
\* features/nodes/util/graph/constants
POSITIVE_CONDITIONING == <<"positive_conditioning">>
NEGATIVE_CONDITIONING == <<"negative_conditioning">>
POSITIVE_CONDITIONING_COLLECT == <<"positive_conditioning_collect">>
NEGATIVE_CONDITIONING_COLLECT == <<"negative_conditioning_collect">>
PROMPT_REGION_MASK_TO_TENSOR_PREFIX == "prompt_region_mask_to_tensor"
PROMPT_REGION_INVERT_TENSOR_MASK_PREFIX == "prompt_region_invert_tensor_mask"
PROMPT_REGION_POSITIVE_COND_PREFIX == "prompt_region_positive_cond"
PROMPT_REGION_NEGATIVE_COND_PREFIX == "prompt_region_negative_cond"
PROMPT_REGION_POSITIVE_COND_INVERTED_PREFIX == "prompt_region_positive_cond_inverted"

\* the denoiseNodeId argument
DenoiseNodeId == <<"denoise_latents">>

Edge(srcNode, srcField, dstNode, dstField) ==
  [ source |-> [node_id |-> srcNode, field |-> srcField],
    destination |-> [node_id |-> dstNode, field |-> dstField] ]

\* graph.nodes[node.id] = node
SetNode(nodes, node) ==
  [id \in (DOMAIN nodes) \cup {node.id} |-> IF id = node.id THEN node ELSE nodes[id]]

\* a string is truthy when it is not empty
Truthy(str) == str # ""

\* a variant of the filters that lets invisible layers through
PassesFilterInvisibleToo(l) ==
  /\ l.kind = "vector_mask_layer"
  /\ \/ Truthy(l.textPrompt.positive) \/ Truthy(l.textPrompt.negative)
     \/ Len(l.imagePrompts) > 0

\* the three filters of the layer list; every layer is a vector mask layer
PassesFilter(l) ==
  /\ l.kind = "vector_mask_layer"
  /\ l.isVisible
  /\ \/ Truthy(l.textPrompt.positive) \/ Truthy(l.textPrompt.negative)
     \/ Len(l.imagePrompts) > 0

RECURSIVE FilterLayers(_)
FilterLayers(layers) ==
  IF layers = <<>> THEN <<>>
  ELSE IF PassesFilter(Head(layers))
       THEN <<Head(layers)>> \o FilterLayers(Tail(layers))
       ELSE FilterLayers(Tail(layers))

\* the two collect nodes
\* a variant that inserts the positive collect node only
InsertCollectorsPositiveOnly(g) ==
  [g EXCEPT !.nodes =
     SetNode(g.nodes, [id |-> POSITIVE_CONDITIONING_COLLECT, type |-> "collect"])]

InsertCollectors(g) ==
  [g EXCEPT !.nodes =
     SetNode(SetNode(g.nodes, [id |-> POSITIVE_CONDITIONING_COLLECT, type |-> "collect"]),
             [id |-> NEGATIVE_CONDITIONING_COLLECT, type |-> "collect"])]

RerouteEdge(edge) ==
  IF edge.destination.node_id = DenoiseNodeId /\ edge.destination.field = "positive_conditioning"
  THEN [ source |-> edge.source,
         destination |-> [node_id |-> POSITIVE_CONDITIONING_COLLECT, field |-> "item"] ]
  ELSE IF edge.destination.node_id = DenoiseNodeId
          /\ edge.destination.field = "negative_conditioning"
       THEN [ source |-> edge.source,
              destination |-> [node_id |-> NEGATIVE_CONDITIONING_COLLECT, field |-> "item"] ]
       ELSE edge

\* a variant that leaves the denoiser's conditioning inputs where they are
RerouteNothing(g) == g

\* the denoiser's conditioning inputs now feed the collect nodes
Reroute(g) ==
  [g EXCEPT !.edges = [k \in 1..Len(g.edges) |-> RerouteEdge(g.edges[k])]]

\* the collect nodes feed the denoiser
ConnectCollectors(g) ==
  [g EXCEPT !.edges =
     g.edges \o
     << Edge(POSITIVE_CONDITIONING_COLLECT, "collection", DenoiseNodeId, "positive_conditioning"),
        Edge(NEGATIVE_CONDITIONING_COLLECT, "collection", DenoiseNodeId, "negative_conditioning") >>]

\* a variant that connects the collect nodes to the denoiser before rerouting
SpliceCollectorsConnectFirst(g) == Reroute(ConnectCollectors(InsertCollectors(g)))

\* the collect nodes, then the reroute, then the collect-to-denoiser edges
SpliceCollectors(g) == ConnectCollectors(Reroute(InsertCollectors(g)))

\* a variant of the copy loop that copies the prompt edges as well
RECURSIVE CopyEdgesWithPrompt(_, _, _, _)
CopyEdgesWithPrompt(edges, i, globalId, regionalId) ==
  IF i > Len(edges) THEN edges
  ELSE IF edges[i].destination.node_id = globalId
       THEN CopyEdgesWithPrompt(Append(edges, [ source |-> edges[i].source,
                                                destination |-> [node_id |-> regionalId,
                                                                 field |-> edges[i].destination.field] ]),
                                i + 1, globalId, regionalId)
       ELSE CopyEdgesWithPrompt(edges, i + 1, globalId, regionalId)

\* for (const edge of graph.edges) { if (...) graph.edges.push(...) }: the loop
\* reads the list it appends to, from position i on
RECURSIVE CopyEdges(_, _, _, _)
CopyEdges(edges, i, globalId, regionalId) ==
  IF i > Len(edges) THEN edges
  ELSE IF edges[i].destination.node_id = globalId /\ edges[i].destination.field # "prompt"
       THEN CopyEdges(Append(edges, [ source |-> edges[i].source,
                                      destination |-> [node_id |-> regionalId,
                                                       field |-> edges[i].destination.field] ]),
                      i + 1, globalId, regionalId)
       ELSE CopyEdges(edges, i + 1, globalId, regionalId)

MaskToTensorId(l) == <<PROMPT_REGION_MASK_TO_TENSOR_PREFIX>> \o l.id
PositiveCondId(l) == <<PROMPT_REGION_POSITIVE_COND_PREFIX>> \o l.id
NegativeCondId(l) == <<PROMPT_REGION_NEGATIVE_COND_PREFIX>> \o l.id
InvertTensorMaskId(l) == <<PROMPT_REGION_INVERT_TENSOR_MASK_PREFIX>> \o l.id
PositiveCondInvertedId(l) == <<PROMPT_REGION_POSITIVE_COND_INVERTED_PREFIX>> \o l.id

\* the conditioning node of a prompt, for the model family
CondNode(sdxl, id, prompt) ==
  IF sdxl
  THEN [type |-> "sdxl_compel_prompt", id |-> id, prompt |-> prompt, style |-> prompt]
  ELSE [type |-> "compel", id |-> id, prompt |-> prompt]

AddMaskToTensor(g, l, image_name) ==
  [g EXCEPT !.nodes =
     SetNode(g.nodes, [ id |-> MaskToTensorId(l), type |-> "alpha_mask_to_tensor",
                        image |-> [image_name |-> image_name] ])]

AddPositiveCond(g, sdxl, l) ==
  IF Truthy(l.textPrompt.positive)
  THEN [ nodes |-> SetNode(g.nodes, CondNode(sdxl, PositiveCondId(l), l.textPrompt.positive)),
         edges |-> CopyEdges(
           g.edges \o
           << Edge(MaskToTensorId(l), "mask", PositiveCondId(l), "mask"),
              Edge(PositiveCondId(l), "conditioning", POSITIVE_CONDITIONING_COLLECT, "item") >>,
           1, POSITIVE_CONDITIONING, PositiveCondId(l)) ]
  ELSE g

AddNegativeCond(g, sdxl, l) ==
  IF Truthy(l.textPrompt.negative)
  THEN [ nodes |-> SetNode(g.nodes, CondNode(sdxl, NegativeCondId(l), l.textPrompt.negative)),
         edges |-> CopyEdges(
           g.edges \o
           << Edge(MaskToTensorId(l), "mask", NegativeCondId(l), "mask"),
              Edge(NegativeCondId(l), "conditioning", NEGATIVE_CONDITIONING_COLLECT, "item") >>,
           1, NEGATIVE_CONDITIONING, NegativeCondId(l)) ]
  ELSE g

\* a variant that copies no edge of the global node onto the inverted node
AddInvertedCondNoFanOut(g, sdxl, l) ==
  IF l.autoNegative = "invert" /\ Truthy(l.textPrompt.positive)
  THEN [ nodes |->
           SetNode(SetNode(g.nodes, [id |-> InvertTensorMaskId(l), type |-> "invert_tensor_mask"]),
                   CondNode(sdxl, PositiveCondInvertedId(l), l.textPrompt.positive)),
         edges |->
           g.edges \o
           << Edge(MaskToTensorId(l), "mask", InvertTensorMaskId(l), "mask"),
              Edge(InvertTensorMaskId(l), "mask", PositiveCondInvertedId(l), "mask"),
              Edge(PositiveCondInvertedId(l), "conditioning", NEGATIVE_CONDITIONING_COLLECT, "item") >> ]
  ELSE g

\* a variant that gives the inverted node the negative prompt
AddInvertedCondNegativePrompt(g, sdxl, l) ==
  IF l.autoNegative = "invert" /\ Truthy(l.textPrompt.positive)
  THEN [ nodes |->
           SetNode(SetNode(g.nodes, [id |-> InvertTensorMaskId(l), type |-> "invert_tensor_mask"]),
                   CondNode(sdxl, PositiveCondInvertedId(l), l.textPrompt.negative)),
         edges |-> CopyEdges(
           g.edges \o
           << Edge(MaskToTensorId(l), "mask", InvertTensorMaskId(l), "mask"),
              Edge(InvertTensorMaskId(l), "mask", PositiveCondInvertedId(l), "mask"),
              Edge(PositiveCondInvertedId(l), "conditioning", NEGATIVE_CONDITIONING_COLLECT, "item") >>,
           1, POSITIVE_CONDITIONING, PositiveCondInvertedId(l)) ]
  ELSE g

AddInvertedCond(g, sdxl, l) ==
  IF l.autoNegative = "invert" /\ Truthy(l.textPrompt.positive)
  THEN [ nodes |->
           SetNode(SetNode(g.nodes, [id |-> InvertTensorMaskId(l), type |-> "invert_tensor_mask"]),
                   CondNode(sdxl, PositiveCondInvertedId(l), l.textPrompt.positive)),
         edges |-> CopyEdges(
           g.edges \o
           << Edge(MaskToTensorId(l), "mask", InvertTensorMaskId(l), "mask"),
              Edge(InvertTensorMaskId(l), "mask", PositiveCondInvertedId(l), "mask"),
              Edge(PositiveCondInvertedId(l), "conditioning", NEGATIVE_CONDITIONING_COLLECT, "item") >>,
           1, POSITIVE_CONDITIONING, PositiveCondInvertedId(l)) ]
  ELSE g

\* the body of the for loop after the upload
AddLayerNodes(g, sdxl, l, image_name) ==
  AddInvertedCond(AddNegativeCond(AddPositiveCond(AddMaskToTensor(g, l, image_name), sdxl, l),
                                  sdxl, l),
                  sdxl, l)

\* a variant that takes every blob for found
BlobFoundAlways(keys, l) == TRUE

\* const blob = blobs[layer.id]; assert(blob)
BlobFound(keys, l) == l.id \in keys

\* the graph the linear graph builders hand over: one global conditioning node
\* per polarity wired to the denoiser, the model's CLIP inputs and a prompt
\* input feeding both
BaseGraph(sdxl) ==
  [ nodes |->
      LET ns == << [id |-> <<"main_model_loader">>, type |-> "main_model_loader"],
                   [id |-> <<"prompt_source">>, type |-> "string"],
                   CondNode(sdxl, POSITIVE_CONDITIONING, "global positive"),
                   CondNode(sdxl, NEGATIVE_CONDITIONING, "global negative"),
                   [id |-> <<"noise">>, type |-> "noise"],
                   [id |-> DenoiseNodeId, type |-> "denoise_latents"] >>
      IN [id \in {ns[k].id : k \in 1..Len(ns)} |->
            ns[CHOOSE k \in 1..Len(ns) : ns[k].id = id]],
    edges |->
      << Edge(<<"main_model_loader">>, "clip", POSITIVE_CONDITIONING, "clip"),
         Edge(<<"main_model_loader">>, "clip", NEGATIVE_CONDITIONING, "clip") >>
      \o (IF sdxl
          THEN << Edge(<<"main_model_loader">>, "clip2", POSITIVE_CONDITIONING, "clip2"),
                  Edge(<<"main_model_loader">>, "clip2", NEGATIVE_CONDITIONING, "clip2") >>
          ELSE <<>>)
      \o << Edge(<<"prompt_source">>, "value", POSITIVE_CONDITIONING, "prompt"),
            Edge(<<"main_model_loader">>, "unet", DenoiseNodeId, "unet"),
            Edge(POSITIVE_CONDITIONING, "conditioning", DenoiseNodeId, "positive_conditioning"),
            Edge(NEGATIVE_CONDITIONING, "conditioning", DenoiseNodeId, "negative_conditioning"),
            Edge(<<"noise">>, "noise", DenoiseNodeId, "noise") >> ]

\* ------------------------------------------------------------------ inputs
LayerKinds == {"vector_mask_layer", "image_mask_layer"}

\* ids an action may name: the id of every layer of the list, and one that is
\* the id of no layer
PayloadIds ==
  {state.layers[k].id : k \in 1..Len(state.layers)} \cup {getVectorMaskLayerId(NoUuid)}

Rect1 == [x |-> 1, y |-> 2, width |-> 3, height |-> 4]

BboxInputs == {NoRect, Rect1}

TranslateInputs == {<<0, 0>>, <<1, 2>>}

DrawingTools == {"brush", "eraser"}

LineInputs == {<<5, 6, 7, 8>>}

PointInputs == {<<9, 10>>}

\* arguments of LayerColors.next: a palette colour, a palette colour at another
\* alpha, a colour that is not in the palette
SeedInputs ==
  { COLORS[3],
    [COLORS[Len(COLORS)] EXCEPT !.a = 50],
    [r |-> 1, g |-> 2, b |-> 3, a |-> AlphaOne] }

RectInputs ==
  { Rect1,
    [x |-> 1, y |-> 2, width |-> 0, height |-> 4],
    [x |-> 1, y |-> 2, width |-> 3, height |-> 0] }

BrushSizeInputs == {60, 80}
OpacityInputs == {30}
EnabledInputs == {TRUE}
PositivePromptInputs == {"a cat"}
NegativePromptInputs == {"a dog"}
ColorInputs == {COLORS[1]}
AutoNegativeInputs == {"invert"}

\* what a layer of the store state handed to the splicer may look like
LayerOptions ==
  [ isVisible : BOOLEAN,
    positive : {"", "a cat"},
    negative : {"", "a dog"},
    autoNegative : {"off", "invert"},
    imagePrompts : {<<>>, <<"image prompt">>} ]

SpliceLayer(i, o) ==
  [NewLayer(Uuids[i], "vector_mask_layer", COLORS[((i - 1) % Len(COLORS)) + 1]) EXCEPT
     !.isVisible = o.isVisible,
     !.textPrompt = [positive |-> o.positive, negative |-> o.negative],
     !.autoNegative = o.autoNegative,
     !.imagePrompts = o.imagePrompts]

SpliceStates ==
  { [initialRegionalPromptsState EXCEPT
       !.isEnabled = enabled,
       !.layers = [i \in 1..Len(o) |-> SpliceLayer(i, o[i])]] :
    enabled \in BOOLEAN, o \in UNION {[1..m -> LayerOptions] : m \in 0..MaxSpliceLayers} }

\* a key of the blob mapping that is the id of no layer
NoLayerId == getVectorMaskLayerId(NoUuid)

ImageNames == {"mask.png"}

\* ----------------------------------------------------------------- actions
Dispatch(type, layerId, arg, newState, newColorIdx) ==
  /\ steps < MaxSteps
  /\ state' = newState
  /\ colorIdx' = newColorIdx
  /\ log' = <<[type |-> type, layerId |-> layerId, arg |-> arg, before |-> state,
                idx |-> colorIdx]>>
             \o (IF log = <<>> THEN <<>> ELSE <<Head(log)>>)
  /\ steps' = steps + 1
  /\ UNCHANGED <<cyclerVars, undoVars, spliceVars>>

LayerAdded ==
  \E kind \in LayerKinds :
    /\ uuidCount < Len(Uuids)
    /\ uuidCount' = uuidCount + 1
    /\ Dispatch("layerAdded", getVectorMaskLayerId(Uuids[uuidCount + 1]), kind,
                layerAdded(state, colorIdx, kind, Uuids[uuidCount + 1]),
                layerAddedColorIdx(state, colorIdx, kind))

LayerSelected ==
  \E id \in PayloadIds :
    /\ Dispatch("layerSelected", id, Null, layerSelected(state, id), colorIdx)
    /\ UNCHANGED uuidCount

LayerVisibilityToggled ==
  \E id \in PayloadIds :
    /\ Dispatch("layerVisibilityToggled", id, Null, layerVisibilityToggled(state, id), colorIdx)
    /\ UNCHANGED uuidCount

LayerTranslated ==
  \E id \in PayloadIds, p \in TranslateInputs :
    /\ Dispatch("layerTranslated", id, p, layerTranslated(state, id, p[1], p[2]), colorIdx)
    /\ UNCHANGED uuidCount

LayerBboxChanged ==
  \E id \in PayloadIds, bbox \in BboxInputs :
    /\ Dispatch("layerBboxChanged", id, bbox, layerBboxChanged(state, id, bbox), colorIdx)
    /\ UNCHANGED uuidCount

LayerReset ==
  \E id \in PayloadIds :
    /\ Dispatch("layerReset", id, Null, layerReset(state, id), colorIdx)
    /\ UNCHANGED uuidCount

LayerDeleted ==
  \E id \in PayloadIds :
    /\ Dispatch("layerDeleted", id, Null, layerDeleted(state, id), colorIdx)
    /\ UNCHANGED uuidCount

LayerMovedForward ==
  \E id \in PayloadIds :
    /\ Dispatch("layerMovedForward", id, Null, layerMovedForward(state, id), colorIdx)
    /\ UNCHANGED uuidCount

LayerMovedToFront ==
  \E id \in PayloadIds :
    /\ Dispatch("layerMovedToFront", id, Null, layerMovedToFront(state, id), colorIdx)
    /\ UNCHANGED uuidCount

LayerMovedBackward ==
  \E id \in PayloadIds :
    /\ Dispatch("layerMovedBackward", id, Null, layerMovedBackward(state, id), colorIdx)
    /\ UNCHANGED uuidCount

LayerMovedToBack ==
  \E id \in PayloadIds :
    /\ Dispatch("layerMovedToBack", id, Null, layerMovedToBack(state, id), colorIdx)
    /\ UNCHANGED uuidCount

AllLayersDeleted ==
  /\ Dispatch("allLayersDeleted", Null, Null, allLayersDeleted(state), colorIdx)
  /\ UNCHANGED uuidCount

GlobalMaskLayerOpacityChanged ==
  \E opacity \in OpacityInputs :
    /\ Dispatch("globalMaskLayerOpacityChanged", Null, opacity,
                globalMaskLayerOpacityChanged(state, opacity), colorIdx)
    /\ UNCHANGED uuidCount

MaskLayerPreviewColorChanged ==
  \E id \in PayloadIds, color \in SeedInputs :
    /\ Dispatch("maskLayerPreviewColorChanged", id, color,
                maskLayerPreviewColorChanged(state, id, color), colorIdx)
    /\ UNCHANGED uuidCount

\* the slice's own undo and redo reducers, dispatched to the bare slice
UndoReduced ==
  /\ Dispatch("undo", Null, Null, undo(state), colorIdx)
  /\ UNCHANGED uuidCount

RedoReduced ==
  /\ Dispatch("redo", Null, Null, redo(state), colorIdx)
  /\ UNCHANGED uuidCount

MaskLayerLineAdded ==
  \E id \in PayloadIds, points \in LineInputs, tool \in DrawingTools :
    /\ uuidCount < Len(Uuids)
    /\ uuidCount' = uuidCount + 1
    /\ Dispatch("maskLayerLineAdded", id, tool,
                maskLayerLineAdded(state, id, points, tool, Uuids[uuidCount + 1]), colorIdx)

MaskLayerPointsAdded ==
  \E id \in PayloadIds, point \in PointInputs :
    /\ Dispatch("maskLayerPointsAdded", id, point, maskLayerPointsAdded(state, id, point), colorIdx)
    /\ UNCHANGED uuidCount

MaskLayerRectAdded ==
  \E id \in PayloadIds, rect \in RectInputs :
    /\ uuidCount < Len(Uuids)
    /\ uuidCount' = uuidCount + 1
    /\ Dispatch("maskLayerRectAdded", id, rect,
                maskLayerRectAdded(state, id, rect, Uuids[uuidCount + 1]), colorIdx)

\* LayerColors.next()
NextColor ==
  /\ Len(returned) < MaxCalls
  /\ colorIdx' = LayerColorsNextIndex(colorIdx, NoColor)
  /\ returned' = Append(returned, LayerColorsNext(colorIdx, NoColor))
  /\ UNCHANGED <<storeVars, undoVars, spliceVars>>

\* LayerColors.next(currentColor)
NextColorAfter ==
  \E currentColor \in SeedInputs :
    /\ colorIdx' = LayerColorsNextIndex(colorIdx, currentColor)
    /\ returned' = <<>>
    /\ UNCHANGED <<storeVars, undoVars, spliceVars>>

\* an action as the trace keeps it, with the history it met
Traced(action, mutated) ==
  [ type |-> action.type, layerId |-> action.layerId, changed |-> mutated,
    before |-> [past |-> history.past, future |-> history.future, group |-> history.group] ]

\* redux-undo's reducer for an action that is neither undo nor redo: res is
\* what the slice reducer returned, mutated says that it is a new object.
Undoable(action, res, mutated) ==
  /\ Len(trace) < MaxUndoSteps
  /\ trace' = Append(trace, Traced(action, mutated))
  /\ IF ~mutated /\ history.latestIsPresent
     THEN UNCHANGED <<state, history, entries>>
     ELSE IF ~filter(action)
          THEN /\ state' = res
               /\ history' = [history EXCEPT !.latestIsPresent = ~mutated /\ @]
               /\ UNCHANGED entries
          ELSE LET group == groupBy(action, history)
               IN IF group # NoGroup /\ group = history.group
                  THEN /\ state' = res
                       /\ history' = newHistory(history.past, res, history.future, history.group)
                       /\ entries' = [entries EXCEPT
                                        ![Len(entries)].types = Append(@, action.type)]
                  ELSE /\ state' = res
                       /\ history' = insert(history, res, UndoLimit, group)
                       /\ entries' =
                            Append(IF UndoLimit <= Len(history.past) + 1
                                   THEN Tail(entries) ELSE entries,
                                   [group |-> group, types |-> <<action.type>>])
  /\ UNCHANGED <<steps, log, cyclerVars, spliceVars>>

UndoableLayerAdded ==
  /\ uuidCount < Len(Uuids)
  /\ uuidCount' = uuidCount + 1
  /\ colorIdx' = layerAddedColorIdx(state, colorIdx, "vector_mask_layer")
  /\ LET res == layerAdded(state, colorIdx, "vector_mask_layer", Uuids[uuidCount + 1])
     IN Undoable([slice |-> "regionalPrompts", type |-> "layerAdded",
                  layerId |-> getVectorMaskLayerId(Uuids[uuidCount + 1])],
                 res, res # state)

UndoableLineAdded ==
  \E id \in PayloadIds, points \in LineInputs :
    /\ uuidCount < Len(Uuids)
    /\ uuidCount' = uuidCount + 1
    /\ colorIdx' = colorIdx
    /\ LET res == maskLayerLineAdded(state, id, points, "brush", Uuids[uuidCount + 1])
       IN Undoable([slice |-> "regionalPrompts", type |-> "maskLayerLineAdded", layerId |-> id],
                   res, res # state)

UndoablePointsAdded ==
  \E id \in PayloadIds, point \in PointInputs :
    /\ UNCHANGED <<uuidCount, colorIdx>>
    /\ LET res == maskLayerPointsAdded(state, id, point)
       IN Undoable([slice |-> "regionalPrompts", type |-> "maskLayerPointsAdded", layerId |-> id],
                   res, res # state)

\* whether layerBboxChanged writes to its draft: a rect of the payload is an
\* object the state does not hold yet, null and false are written only over
\* something else
layerBboxChangedMutates(s, id, bbox) ==
  LET k == FindIndex(s.layers, id)
  IN k # 0 /\ (bbox # NoRect \/ s.layers[k].bbox # NoRect \/ s.layers[k].bboxNeedsUpdate)

UndoableBboxChanged ==
  \E id \in PayloadIds, bbox \in BboxInputs :
    /\ UNCHANGED <<uuidCount, colorIdx>>
    /\ Undoable([slice |-> "regionalPrompts", type |-> "layerBboxChanged", layerId |-> id],
                layerBboxChanged(state, id, bbox), layerBboxChangedMutates(state, id, bbox))

\* an action of the slice that names a layer, dispatched to the undoable store
UndoableOnLayer(type, id, res, mutated) ==
  /\ UNCHANGED <<uuidCount, colorIdx>>
  /\ Undoable([slice |-> "regionalPrompts", type |-> type, layerId |-> id], res, mutated)

UndoableTranslated ==
  \E id \in PayloadIds, xy \in TranslateInputs :
    LET res == layerTranslated(state, id, xy[1], xy[2])
    IN UndoableOnLayer("layerTranslated", id, res, res # state)

UndoableBrushSizeChanged ==
  \E size \in BrushSizeInputs :
    LET res == brushSizeChanged(state, size)
    IN UndoableOnLayer("brushSizeChanged", Null, res, res # state)

UndoableOpacityChanged ==
  \E opacity \in OpacityInputs :
    LET res == globalMaskLayerOpacityChanged(state, opacity)
    IN UndoableOnLayer("globalMaskLayerOpacityChanged", Null, res, res # state)

UndoableIsEnabledChanged ==
  \E enabled \in EnabledInputs :
    LET res == isEnabledChanged(state, enabled)
    IN UndoableOnLayer("isEnabledChanged", Null, res, res # state)

UndoablePositivePromptChanged ==
  \E id \in PayloadIds, prompt \in PositivePromptInputs :
    LET res == maskLayerPositivePromptChanged(state, id, prompt)
    IN UndoableOnLayer("maskLayerPositivePromptChanged", id, res, res # state)

UndoableNegativePromptChanged ==
  \E id \in PayloadIds, prompt \in NegativePromptInputs :
    LET res == maskLayerNegativePromptChanged(state, id, prompt)
    IN UndoableOnLayer("maskLayerNegativePromptChanged", id, res, res # state)

\* the colour of the payload is an object the state does not hold yet
UndoablePreviewColorChanged ==
  \E id \in PayloadIds, color \in ColorInputs :
    UndoableOnLayer("maskLayerPreviewColorChanged", id,
                    maskLayerPreviewColorChanged(state, id, color),
                    FindIndex(state.layers, id) # 0)

\* state.layers is assigned the array that filter made, whatever it removed
UndoableDeleted ==
  \E id \in PayloadIds :
    UndoableOnLayer("layerDeleted", id, layerDeleted(state, id), TRUE)

UndoableSelected ==
  \E id \in PayloadIds :
    LET res == layerSelected(state, id)
    IN UndoableOnLayer("layerSelected", id, res, res # state)

UndoableMovedForward ==
  \E id \in PayloadIds :
    LET res == layerMovedForward(state, id)
    IN UndoableOnLayer("layerMovedForward", id, res, res # state)

UndoableMovedToFront ==
  \E id \in PayloadIds :
    LET res == layerMovedToFront(state, id)
    IN UndoableOnLayer("layerMovedToFront", id, res, res # state)

UndoableMovedBackward ==
  \E id \in PayloadIds :
    LET res == layerMovedBackward(state, id)
    IN UndoableOnLayer("layerMovedBackward", id, res, res # state)

UndoableMovedToBack ==
  \E id \in PayloadIds :
    LET res == layerMovedToBack(state, id)
    IN UndoableOnLayer("layerMovedToBack", id, res, res # state)

\* layer.objects is assigned a new array whenever the layer is found
UndoableReset ==
  \E id \in PayloadIds :
    UndoableOnLayer("layerReset", id, layerReset(state, id), FindIndex(state.layers, id) # 0)

UndoableRectAdded ==
  \E id \in PayloadIds, rect \in RectInputs :
    /\ uuidCount < Len(Uuids)
    /\ uuidCount' = uuidCount + 1
    /\ colorIdx' = colorIdx
    /\ LET res == maskLayerRectAdded(state, id, rect, Uuids[uuidCount + 1])
       IN Undoable([slice |-> "regionalPrompts", type |-> "maskLayerRectAdded", layerId |-> id],
                   res, res # state)

UndoableVisibilityToggled ==
  \E id \in PayloadIds :
    LET res == layerVisibilityToggled(state, id)
    IN UndoableOnLayer("layerVisibilityToggled", id, res, res # state)

UndoableAutoNegativeChanged ==
  \E id \in PayloadIds, autoNegative \in AutoNegativeInputs :
    LET res == maskLayerAutoNegativeChanged(state, id, autoNegative)
    IN UndoableOnLayer("maskLayerAutoNegativeChanged", id, res, res # state)

\* redux-undo on the undo action: one step back; the slice reducer is skipped
Undo ==
  /\ Len(trace) < MaxUndoSteps
  /\ trace' = Append(trace, Traced([type |-> "undo", layerId |-> Null], FALSE))
  /\ history' = jumpToPast(history, state)[1]
  /\ state' = jumpToPast(history, state)[2]
  /\ entries' = SubSeq(entries, 1, Len(history'.past))
  /\ UNCHANGED <<uuidCount, colorIdx, steps, log, cyclerVars, spliceVars>>

\* redux-undo on the redo action: one step forward; the slice reducer is skipped
Redo ==
  /\ Len(trace) < MaxUndoSteps
  /\ trace' = Append(trace, Traced([type |-> "redo", layerId |-> Null], FALSE))
  /\ history' = jumpToFuture(history, state)[1]
  /\ state' = jumpToFuture(history, state)[2]
  /\ entries' = IF history.future = <<>> THEN entries
                ELSE Append(entries, [group |-> NoGroup, types |-> <<"redo">>])
  /\ UNCHANGED <<uuidCount, colorIdx, steps, log, cyclerVars, spliceVars>>

\* a variant that issues the uploads of all the layers left without awaiting any
LoopFromUploadingAll(g, k) ==
  /\ graph' = g
  /\ cursor' = k
  /\ IF k > Len(spLayers')
     THEN pc' = "returned" /\ UNCHANGED <<uploads, err>>
     ELSE IF ~BlobFound(blobs', spLayers'[k])
          THEN pc' = "threw" /\ err' = "assert blob" /\ UNCHANGED uploads
          ELSE /\ uploads' = IF k = 1
                             THEN [j \in 1..Len(spLayers') |-> spLayers'[j].id]
                             ELSE uploads
               /\ pc' = "upload"
               /\ UNCHANGED err

\* the for loop from position k on, up to the next await: the call returns
\* after the last layer, throws on a missing blob, or uploads the k-th mask
LoopFrom(g, k) ==
  /\ graph' = g
  /\ cursor' = k
  /\ IF k > Len(spLayers')
     THEN pc' = "returned" /\ UNCHANGED <<uploads, err>>
     ELSE IF ~BlobFound(blobs', spLayers'[k])
          THEN pc' = "threw" /\ err' = "assert blob" /\ UNCHANGED uploads
          ELSE /\ uploads' = Append(uploads, spLayers'[k].id)
               /\ pc' = "upload"
               /\ UNCHANGED err

\* a variant that does not look at the enabled flag
SpliceCalledWhateverTheFlag ==
  /\ pc = "idle"
  /\ pc' = "blobs"
  /\ spLayers' = FilterLayers(state.layers)
  /\ UNCHANGED <<isSDXL, graph, blobs, cursor, uploads, err>>
  /\ UNCHANGED <<state, colorIdx, uuidCount, steps, log, cyclerVars, undoVars>>

\* the call up to await getRegionalPromptLayerBlobs(layerIds)
SpliceCalled ==
  /\ pc = "idle"
  /\ IF ~state.isEnabled
     THEN pc' = "returned" /\ UNCHANGED spLayers
     ELSE pc' = "blobs" /\ spLayers' = FilterLayers(state.layers)
  /\ UNCHANGED <<isSDXL, graph, blobs, cursor, uploads, err>>
  /\ UNCHANGED <<state, colorIdx, uuidCount, steps, log, cyclerVars, undoVars>>

\* a variant that compares the sizes after the collect nodes are spliced in
BlobsResolvedAssertingLate ==
  \E keys \in SUBSET ({spLayers[k].id : k \in 1..Len(spLayers)} \cup {NoLayerId}) :
    /\ pc = "blobs"
    /\ blobs' = keys
    /\ UNCHANGED <<isSDXL, spLayers>>
    /\ IF Cardinality(keys) # Len(spLayers)
       THEN /\ pc' = "threw"
            /\ err' = "assert size"
            /\ graph' = SpliceCollectors(graph)
            /\ UNCHANGED <<cursor, uploads>>
       ELSE LoopFrom(SpliceCollectors(graph), 1)
    /\ UNCHANGED <<state, colorIdx, uuidCount, steps, log, cyclerVars, undoVars>>

\* the blobs arrive: from the size assertion to the first upload
BlobsResolved ==
  \E keys \in SUBSET ({spLayers[k].id : k \in 1..Len(spLayers)} \cup {NoLayerId}) :
    /\ pc = "blobs"
    /\ blobs' = keys
    /\ UNCHANGED <<isSDXL, spLayers>>
    /\ IF Cardinality(keys) # Len(spLayers)
       THEN /\ pc' = "threw"
            /\ err' = "assert size"
            /\ UNCHANGED <<graph, cursor, uploads>>
       ELSE LoopFrom(SpliceCollectors(graph), 1)
    /\ UNCHANGED <<state, colorIdx, uuidCount, steps, log, cyclerVars, undoVars>>

\* getRegionalPromptLayerBlobs rejects
BlobsRejected ==
  /\ pc = "blobs"
  /\ pc' = "threw"
  /\ err' = "blobs"
  /\ UNCHANGED <<isSDXL, graph, spLayers, blobs, cursor, uploads>>
  /\ UNCHANGED <<state, colorIdx, uuidCount, steps, log, cyclerVars, undoVars>>

\* req.unwrap() resolves: the layer's nodes, then on to the next layer
UploadResolved ==
  \E image_name \in ImageNames :
    /\ pc = "upload"
    /\ UNCHANGED <<isSDXL, spLayers, blobs>>
    /\ LoopFrom(AddLayerNodes(graph, isSDXL, spLayers[cursor], image_name), cursor + 1)
    /\ UNCHANGED <<state, colorIdx, uuidCount, steps, log, cyclerVars, undoVars>>

\* a variant in which a rejected upload puts the graph back as it was handed over
UploadRejectedRollsBack ==
  /\ pc = "upload"
  /\ pc' = "threw"
  /\ err' = "upload"
  /\ graph' = BaseGraph(isSDXL)
  /\ UNCHANGED <<isSDXL, spLayers, blobs, cursor, uploads>>
  /\ UNCHANGED <<state, colorIdx, uuidCount, steps, log, cyclerVars, undoVars>>

\* a variant in which a rejected upload never reaches the waiting call
UploadRejectedNeverSettles ==
  /\ pc = "upload"
  /\ pc' = "suspended"
  /\ UNCHANGED <<isSDXL, graph, spLayers, blobs, cursor, uploads, err>>
  /\ UNCHANGED <<state, colorIdx, uuidCount, steps, log, cyclerVars, undoVars>>

\* req.unwrap() rejects
UploadRejected ==
  /\ pc = "upload"
  /\ pc' = "threw"
  /\ err' = "upload"
  /\ UNCHANGED <<isSDXL, graph, spLayers, blobs, cursor, uploads>>
  /\ UNCHANGED <<state, colorIdx, uuidCount, steps, log, cyclerVars, undoVars>>

\* ---------------------------------------------------------- specifications
Init ==
  /\ state = initialRegionalPromptsState
  /\ colorIdx = Len(COLORS) - 1
  /\ uuidCount = 0
  /\ steps = 0
  /\ log = <<>>
  /\ returned = <<>>
  /\ history = newHistory(<<>>, initialRegionalPromptsState, <<>>, NoGroup)
  /\ entries = <<>>
  /\ trace = <<>>
  /\ isSDXL = FALSE
  /\ pc = "idle"
  /\ graph = BaseGraph(FALSE)
  /\ spLayers = <<>>
  /\ blobs = {}
  /\ cursor = 0
  /\ uploads = <<>>
  /\ err = "none"

\* The "All Layers" reducers that change the list or the selection.
NextOrder ==
  \/ LayerAdded
  \/ LayerSelected
  \/ LayerDeleted
  \/ LayerMovedForward
  \/ LayerMovedToFront
  \/ LayerMovedBackward
  \/ LayerMovedToBack
  \/ AllLayersDeleted

SpecOrder == Init /\ [][NextOrder]_vars

\* Every "All Layers" reducer.
NextLayers ==
  \/ LayerAdded
  \/ LayerSelected
  \/ LayerVisibilityToggled
  \/ LayerTranslated
  \/ LayerBboxChanged
  \/ LayerReset
  \/ LayerDeleted
  \/ LayerMovedForward
  \/ LayerMovedToFront
  \/ LayerMovedBackward
  \/ LayerMovedToBack
  \/ AllLayersDeleted

SpecLayers == Init /\ [][NextLayers]_vars

\* Drawing on mask layers.
NextDraw ==
  \/ LayerAdded
  \/ LayerTranslated
  \/ LayerBboxChanged
  \/ LayerReset
  \/ MaskLayerLineAdded
  \/ MaskLayerPointsAdded
  \/ MaskLayerRectAdded

SpecDraw == Init /\ [][NextDraw]_vars

\* Adding layers after layers of any colour and opacity, or after none.
NextAdd ==
  \/ LayerAdded
  \/ LayerDeleted
  \/ GlobalMaskLayerOpacityChanged
  \/ MaskLayerPreviewColorChanged

SpecAdd == Init /\ [][NextAdd]_vars

\* Every action of the slice that reaches a layer's bounding-box flags without
\* removing the layer.
NextFlag ==
  /\ steps < MaxFlagSteps
  /\ \/ LayerAdded
     \/ LayerVisibilityToggled
     \/ LayerTranslated
     \/ LayerBboxChanged
     \/ LayerReset
     \/ LayerMovedForward
     \/ LayerMovedToFront
     \/ LayerMovedBackward
     \/ LayerMovedToBack
     \/ MaskLayerLineAdded
     \/ MaskLayerPointsAdded
     \/ MaskLayerRectAdded
     \/ UndoReduced
     \/ RedoReduced

SpecFlag == Init /\ [][NextFlag]_vars

\* The colour cycler on its own.
NextColors ==
  \/ NextColor
  \/ NextColorAfter

SpecColors == Init /\ [][NextColors]_vars

\* Strokes on the undoable store.
NextUndo ==
  \/ UndoableLayerAdded
  \/ UndoableLineAdded
  \/ UndoablePointsAdded

SpecUndo == Init /\ [][NextUndo]_vars

\* Every kind of action the history records, on the undoable store.
NextGroup ==
  /\ Len(trace) < MaxGroupSteps
  /\ \/ UndoableLayerAdded
     \/ UndoableLineAdded
     \/ UndoablePointsAdded
     \/ UndoableTranslated
     \/ UndoableBrushSizeChanged
     \/ UndoableOpacityChanged
     \/ UndoableIsEnabledChanged
     \/ UndoablePositivePromptChanged
     \/ UndoableNegativePromptChanged
     \/ UndoablePreviewColorChanged
     \/ UndoableDeleted
     \/ UndoableSelected
     \/ UndoableMovedForward
     \/ UndoableMovedToFront
     \/ UndoableMovedBackward
     \/ UndoableMovedToBack
     \/ UndoableReset
     \/ UndoableRectAdded
     \/ UndoableVisibilityToggled
     \/ UndoableAutoNegativeChanged

SpecGroup == Init /\ [][NextGroup]_vars

\* Strokes and bbox changes on the undoable store, with undo and redo.
NextTransient ==
  /\ Len(trace) < MaxTransientSteps
  /\ \/ UndoableLayerAdded
     \/ UndoableLineAdded
     \/ UndoablePointsAdded
     \/ UndoableBboxChanged
     \/ Undo
     \/ Redo

SpecTransient == Init /\ [][NextTransient]_vars

\* One call of addRegionalPromptsToGraph, on any store state and model family.
InitSplice ==
  /\ state \in SpliceStates
  /\ isSDXL \in BOOLEAN
  /\ graph = BaseGraph(isSDXL)
  /\ colorIdx = Len(COLORS) - 1
  /\ uuidCount = 0
  /\ steps = 0
  /\ log = <<>>
  /\ returned = <<>>
  /\ history = newHistory(<<>>, initialRegionalPromptsState, <<>>, NoGroup)
  /\ entries = <<>>
  /\ trace = <<>>
  /\ pc = "idle"
  /\ spLayers = <<>>
  /\ blobs = {}
  /\ cursor = 0
  /\ uploads = <<>>
  /\ err = "none"

NextSplice ==
  \/ SpliceCalled
  \/ BlobsResolved
  \/ BlobsRejected
  \/ UploadResolved
  \/ UploadRejected

SpecSplice == InitSplice /\ [][NextSplice]_vars

\* The call with its awaited promises settling: the blob lookup responds, and
\* so does every upload the call waits for.
SpecSpliceFair ==
  /\ InitSplice
  /\ [][NextSplice]_vars
  /\ WF_vars(BlobsRejected \/ BlobsResolved)
  /\ WF_vars(UploadRejected \/ UploadResolved)

\* ------------------------------------------------------------------ claims
LayerIds(s) == {s.layers[k].id : k \in 1..Len(s.layers)}

\* the action dispatched last was of this type
Did(type) == log # <<>> /\ log[1].type = type

\* the last two actions dispatched were of these types, on the same layer id
DidBoth(first, second) ==
  /\ Len(log) = 2
  /\ log[2].type = first
  /\ log[1].type = second
  /\ log[1].layerId = log[2].layerId

\* C1: in every state reachable by add-layer, select-layer, delete-layer and
\* delete-all-layers actions (any ids, present or absent), selectedLayerId is
\* null or the id of a layer in the list.
C1_SelectedIsNullOrPresent ==
  state.selectedLayerId = Null \/ state.selectedLayerId \in LayerIds(state)

\* C1 witness: the selected layer was deleted while another layer remained.
C1_Witness ==
  /\ Did("layerDeleted")
  /\ log[1].layerId = log[1].before.selectedLayerId
  /\ log[1].layerId \in LayerIds(log[1].before)
  /\ Len(state.layers) > 0

MissingIdActions ==
  {"layerSelected", "layerVisibilityToggled", "layerTranslated", "layerBboxChanged",
   "layerReset", "layerDeleted", "layerMovedForward", "layerMovedBackward",
   "layerMovedToFront", "layerMovedToBack"}

\* C5: select, toggle-visibility, translate, set-bbox, reset, delete and the four
\* moves, dispatched with an id that is the id of no layer, leave the whole
\* store state unchanged.
C5_MissingIdIsNoOp ==
  (/\ log # <<>>
   /\ log[1].type \in MissingIdActions
   /\ log[1].layerId \notin LayerIds(log[1].before))
  => state = log[1].before

\* C5, the part the code keeps: every one of these actions but delete leaves the
\* state unchanged, and delete with an absent id leaves the layer list unchanged.
C5_AllButDeleteAreNoOps ==
  (/\ log # <<>>
   /\ log[1].type \in MissingIdActions
   /\ log[1].layerId \notin LayerIds(log[1].before))
  => /\ state.layers = log[1].before.layers
     /\ log[1].type # "layerDeleted" => state = log[1].before

\* C6: move-to-front then move-to-back of a layer of the list, or move-to-back
\* then move-to-front, yields the order the list had before the two moves.
C6_FrontBackRestoresOrder ==
  (/\ \/ DidBoth("layerMovedToFront", "layerMovedToBack")
      \/ DidBoth("layerMovedToBack", "layerMovedToFront")
   /\ log[1].layerId \in LayerIds(log[2].before))
  => state.layers = log[2].before.layers

\* C6 as amended: move-to-front then move-to-back leaves the layer first in the
\* list, move-to-back then move-to-front leaves it last, the other layers keep
\* their relative order; the order before the two moves is restored exactly when
\* the layer already was first (resp. last) in the list.
C6_FrontBackMovesToEnd ==
  /\ (/\ DidBoth("layerMovedToFront", "layerMovedToBack")
      /\ log[1].layerId \in LayerIds(log[2].before))
     => LET before == log[2].before.layers
            k == FindIndex(before, log[1].layerId)
        IN /\ state.layers = <<before[k]>> \o RemoveAt(before, k)
           /\ (state.layers = before) <=> (k = 1)
  /\ (/\ DidBoth("layerMovedToBack", "layerMovedToFront")
      /\ log[1].layerId \in LayerIds(log[2].before))
     => LET before == log[2].before.layers
            k == FindIndex(before, log[1].layerId)
        IN /\ state.layers = RemoveAt(before, k) \o <<before[k]>>
           /\ (state.layers = before) <=> (k = Len(before))

\* C6 witness: the middle one of three layers went to the front, then to the back.
C6_Witness ==
  /\ DidBoth("layerMovedToFront", "layerMovedToBack")
  /\ Len(log[2].before.layers) = 3
  /\ FindIndex(log[2].before.layers, log[1].layerId) = 2
  /\ FindIndex(state.layers, log[1].layerId) = 1

\* the layer the last action named, before the action and after it
TargetBefore == log[1].before.layers[FindIndex(log[1].before.layers, log[1].layerId)]
TargetAfter == state.layers[FindIndex(state.layers, log[1].layerId)]

\* an append-point action reached a layer whose last object is a rectangle
PointsAddedAfterRect ==
  /\ Did("maskLayerPointsAdded")
  /\ log[1].layerId \in LayerIds(log[1].before)
  /\ TargetBefore.objects # <<>>
  /\ ~isLine(TargetBefore.objects[Len(TargetBefore.objects)])

\* C7: an append-point action on a layer whose last object is a rectangle leaves
\* the layer unchanged, also when a line comes earlier in the object sequence.
C7_PointsAfterRectIsNoOp ==
  PointsAddedAfterRect => TargetAfter = TargetBefore

\* C7 as amended: an append-point action on a layer whose last object is a
\* rectangle leaves the layer unchanged when the layer holds no line; when a
\* line comes earlier, the point, offset by the layer's x and y, is appended to
\* the last such line and the bbox is marked dirty, the rest of the store being
\* unchanged.
C7_PointsAfterRectGoToLastLine ==
  PointsAddedAfterRect =>
    LET k == FindLastLineIndex(TargetBefore.objects)
        j == FindIndex(state.layers, log[1].layerId)
        point == log[1].arg
    IN IF k = 0
       THEN state = log[1].before
       ELSE state =
              [log[1].before EXCEPT
                 !.layers[j].objects[k].points =
                     @ \o <<point[1] - TargetBefore.x, point[2] - TargetBefore.y>>,
                 !.layers[j].bboxNeedsUpdate = TRUE]

\* C7 witness: the point went to a line that a rectangle follows, and marked a
\* clean bbox dirty.
C7_Witness ==
  /\ PointsAddedAfterRect
  /\ FindLastLineIndex(TargetBefore.objects) # 0
  /\ ~TargetBefore.bboxNeedsUpdate
  /\ TargetAfter.bboxNeedsUpdate
  /\ TargetAfter.objects # TargetBefore.objects

\* C8: an add-rectangle action with width 0 or height 0 leaves the whole store
\* state unchanged, whatever the layer id; with non-zero width and height on a
\* layer of the list it adds exactly one object to that layer and marks its bbox
\* dirty.
C8_ZeroRectIsNoOp ==
  Did("maskLayerRectAdded") =>
    LET rect == log[1].arg
    IN IF rect.width = 0 \/ rect.height = 0
       THEN state = log[1].before
       ELSE log[1].layerId \in LayerIds(log[1].before) =>
              /\ Len(TargetAfter.objects) = Len(TargetBefore.objects) + 1
              /\ TargetAfter.bboxNeedsUpdate

\* C8 witness: a zero-width rectangle was sent to a layer that holds an object
\* and has a clean bbox.
C8_Witness ==
  /\ Did("maskLayerRectAdded")
  /\ log[1].arg.width = 0
  /\ log[1].layerId \in LayerIds(log[1].before)
  /\ TargetBefore.objects # <<>>
  /\ ~TargetBefore.bboxNeedsUpdate

\* 0-based palette index of a palette colour
PaletteIndex(c) == (CHOOSE k \in 1..Len(COLORS) : COLORS[k] = c) - 1

\* C9: any 7 consecutive calls of next() without an argument return every
\* palette colour exactly once, in palette order modulo wrap-around, the next 7
\* calls repeat the sequence, and the index stays within 0..6, so that the
\* colour returned is never undefined.
C9_UnseededCallsCycle ==
  /\ colorIdx \in 0..(Len(COLORS) - 1)
  /\ \A j \in 1..Len(returned) : returned[j] # NoColor
  /\ \A j \in 1..(Len(returned) - 1) :
       returned[j + 1] = COLORS[((PaletteIndex(returned[j]) + 1) % Len(COLORS)) + 1]
  /\ \A j \in 1..(Len(returned) - Len(COLORS) + 1) :
       {returned[m] : m \in j..(j + Len(COLORS) - 1)} = {COLORS[k] : k \in 1..Len(COLORS)}
  /\ \A j \in 1..(Len(returned) - Len(COLORS)) : returned[j + Len(COLORS)] = returned[j]

\* C9 witness: 14 calls in a row that started in the middle of the palette.
C9_Witness ==
  /\ Len(returned) >= 2 * Len(COLORS)
  /\ returned[1] = COLORS[4]

\* whether the i-th action of a trace of add-layer, add-line and append-point
\* actions found its layer (and, for append-point, a line on it)
StrokeApplied(tr, i) ==
  CASE tr[i].type = "layerAdded" -> TRUE
    [] tr[i].type = "maskLayerLineAdded" ->
         \E j \in 1..(i - 1) : tr[j].type = "layerAdded" /\ tr[j].layerId = tr[i].layerId
    [] tr[i].type = "maskLayerPointsAdded" ->
         \E j \in 1..(i - 1), m \in 1..(i - 1) :
           /\ j < m
           /\ tr[j].type = "layerAdded" /\ tr[j].layerId = tr[i].layerId
           /\ tr[m].type = "maskLayerLineAdded" /\ tr[m].layerId = tr[i].layerId

\* the first i actions of a trace cut into strokes: an add-line starts a stroke,
\* the append-points that follow it belong to it; anything else stands alone
RECURSIVE Strokes(_, _)
Strokes(tr, i) ==
  IF i = 0 THEN <<>>
  ELSE LET sofar == Strokes(tr, i - 1)
           n == Len(sofar)
       IN IF ~StrokeApplied(tr, i) THEN sofar
          ELSE IF /\ tr[i].type = "maskLayerPointsAdded"
                  /\ n > 0
                  /\ sofar[n][1] = "maskLayerLineAdded"
               THEN [sofar EXCEPT ![n] = Append(@, tr[i].type)]
               ELSE Append(sofar, <<tr[i].type>>)

\* the five actions of the undo-group test, on the layer added first
UndoGroupTest ==
  /\ Len(trace) = 6
  /\ [i \in 1..6 |-> trace[i].type] =
       <<"layerAdded", "maskLayerLineAdded", "maskLayerPointsAdded", "maskLayerPointsAdded",
         "maskLayerLineAdded", "maskLayerPointsAdded">>
  /\ \A i \in 1..6 : trace[i].layerId = trace[1].layerId

EdgesInto(nodeId, field) ==
  {k \in 1..Len(graph.edges) :
     graph.edges[k].destination.node_id = nodeId /\ graph.edges[k].destination.field = field}

AllEdgesInto(nodeId) ==
  {k \in 1..Len(graph.edges) : graph.edges[k].destination.node_id = nodeId}

SourcesOf(K) == {graph.edges[k].source.node_id : k \in K}

VisibleLayers == {k \in 1..Len(state.layers) : state.layers[k].isVisible}

\* a pass that returned, on an enabled feature whose only visible layer is the
\* k-th, with a positive prompt, no negative prompt and the given auto-negative
SplicedOneLayer(k, auto) ==
  /\ pc = "returned"
  /\ state.isEnabled
  /\ VisibleLayers = {k}
  /\ Truthy(state.layers[k].textPrompt.positive)
  /\ ~Truthy(state.layers[k].textPrompt.negative)
  /\ state.layers[k].autoNegative = auto

DenoiserFedByCollectors ==
  /\ Cardinality(EdgesInto(DenoiseNodeId, "positive_conditioning")) = 1
  /\ SourcesOf(EdgesInto(DenoiseNodeId, "positive_conditioning")) = {POSITIVE_CONDITIONING_COLLECT}
  /\ Cardinality(EdgesInto(DenoiseNodeId, "negative_conditioning")) = 1
  /\ SourcesOf(EdgesInto(DenoiseNodeId, "negative_conditioning")) = {NEGATIVE_CONDITIONING_COLLECT}

\* C2 as stated: with one visible layer, positive prompt only, auto-negative
\* off, after a successful pass the denoiser's conditioning inputs come from
\* the collect nodes, the positive collect node's only incoming item edge
\* comes from the layer's regional positive conditioning node, and the
\* negative collect node has no incoming item edge.
C2_CollectorsHoldOnlyRegional ==
  \A k \in 1..Len(state.layers) :
    SplicedOneLayer(k, "off") =>
      /\ DenoiserFedByCollectors
      /\ Cardinality(EdgesInto(POSITIVE_CONDITIONING_COLLECT, "item")) = 1
      /\ SourcesOf(EdgesInto(POSITIVE_CONDITIONING_COLLECT, "item")) = {PositiveCondId(state.layers[k])}
      /\ EdgesInto(NEGATIVE_CONDITIONING_COLLECT, "item") = {}

\* C2: with one visible layer, positive prompt only, auto-negative off, after a
\* successful pass the denoiser's conditioning inputs come from the collect
\* nodes; the positive collect node has exactly two incoming item edges, from
\* the global positive conditioning node and from the layer's regional positive
\* conditioning node; the negative collect node has exactly one, from the
\* global negative conditioning node.
C2_CollectorsHoldGlobalAndRegional ==
  \A k \in 1..Len(state.layers) :
    SplicedOneLayer(k, "off") =>
      /\ DenoiserFedByCollectors
      /\ Cardinality(EdgesInto(POSITIVE_CONDITIONING_COLLECT, "item")) = 2
      /\ SourcesOf(EdgesInto(POSITIVE_CONDITIONING_COLLECT, "item"))
           = {POSITIVE_CONDITIONING, PositiveCondId(state.layers[k])}
      /\ Cardinality(EdgesInto(NEGATIVE_CONDITIONING_COLLECT, "item")) = 1
      /\ SourcesOf(EdgesInto(NEGATIVE_CONDITIONING_COLLECT, "item")) = {NEGATIVE_CONDITIONING}

\* C2 witness: a pass over one such layer returned and left the layer's
\* regional positive conditioning node in the graph.
C2_Witness ==
  \E k \in 1..Len(state.layers) :
    /\ SplicedOneLayer(k, "off")
    /\ PositiveCondId(state.layers[k]) \in DOMAIN graph.nodes

\* C3 as stated: with one visible layer, positive prompt only, auto-negative
\* invert, after a successful pass the negative collect node has exactly one
\* incoming edge, from the layer's inverted-mask conditioning node, whose prompt
\* is the layer's positive prompt.
C3_NegativeCollectorHoldsOnlyInverted ==
  \A k \in 1..Len(state.layers) :
    SplicedOneLayer(k, "invert") =>
      /\ Cardinality(AllEdgesInto(NEGATIVE_CONDITIONING_COLLECT)) = 1
      /\ SourcesOf(AllEdgesInto(NEGATIVE_CONDITIONING_COLLECT))
           = {PositiveCondInvertedId(state.layers[k])}
      /\ PositiveCondInvertedId(state.layers[k]) \in DOMAIN graph.nodes
      /\ graph.nodes[PositiveCondInvertedId(state.layers[k])].prompt
           = state.layers[k].textPrompt.positive

\* C3: with one visible layer, positive prompt only, auto-negative invert,
\* after a successful pass the negative collect node has exactly two incoming
\* edges, both item edges: one from the global negative conditioning node and
\* one from the layer's inverted-mask conditioning node, whose prompt is the
\* layer's positive prompt.
C3_NegativeCollectorHoldsGlobalAndInverted ==
  \A k \in 1..Len(state.layers) :
    SplicedOneLayer(k, "invert") =>
      /\ Cardinality(AllEdgesInto(NEGATIVE_CONDITIONING_COLLECT)) = 2
      /\ AllEdgesInto(NEGATIVE_CONDITIONING_COLLECT) = EdgesInto(NEGATIVE_CONDITIONING_COLLECT, "item")
      /\ SourcesOf(AllEdgesInto(NEGATIVE_CONDITIONING_COLLECT))
           = {NEGATIVE_CONDITIONING, PositiveCondInvertedId(state.layers[k])}
      /\ PositiveCondInvertedId(state.layers[k]) \in DOMAIN graph.nodes
      /\ graph.nodes[PositiveCondInvertedId(state.layers[k])].prompt
           = state.layers[k].textPrompt.positive

\* C3 witness: a pass over one such layer returned and left the layer's
\* mask-inversion node in the graph.
C3_Witness ==
  \E k \in 1..Len(state.layers) :
    /\ SplicedOneLayer(k, "invert")
    /\ InvertTensorMaskId(state.layers[k]) \in DOMAIN graph.nodes

\* the ids of the nodes the splicer makes for a layer
LayerNodeIds(l) ==
  {MaskToTensorId(l), PositiveCondId(l), NegativeCondId(l), InvertTensorMaskId(l),
   PositiveCondInvertedId(l)}

\* the positions of the filtered layers the blob mapping has no entry for
MissingBlobs == {k \in 1..Len(spLayers) : spLayers[k].id \notin blobs}

\* the blob mapping has reached the call
BlobsHandedOver == pc \in {"upload", "returned", "threw"} /\ state.isEnabled /\ err # "blobs"

PixelBboxLayers ==
  {p \in (1..Len(log[1].before.layers)) \X (1..Len(state.layers)) :
     /\ log[1].before.layers[p[1]].needsPixelBbox
     /\ log[1].before.layers[p[1]].id = state.layers[p[2]].id}

HasEdge(e) == \E k \in 1..Len(graph.edges) : graph.edges[k] = e

\* the nodes and edges the loop body makes for a layer are all in the graph
LayerSpliced(l) ==
  /\ MaskToTensorId(l) \in DOMAIN graph.nodes
  /\ graph.nodes[MaskToTensorId(l)].type = "alpha_mask_to_tensor"
  /\ PositiveCondId(l) \in DOMAIN graph.nodes <=> Truthy(l.textPrompt.positive)
  /\ Truthy(l.textPrompt.positive) =>
       /\ graph.nodes[PositiveCondId(l)].prompt = l.textPrompt.positive
       /\ HasEdge(Edge(MaskToTensorId(l), "mask", PositiveCondId(l), "mask"))
       /\ HasEdge(Edge(PositiveCondId(l), "conditioning", POSITIVE_CONDITIONING_COLLECT, "item"))
  /\ NegativeCondId(l) \in DOMAIN graph.nodes <=> Truthy(l.textPrompt.negative)
  /\ Truthy(l.textPrompt.negative) =>
       /\ graph.nodes[NegativeCondId(l)].prompt = l.textPrompt.negative
       /\ HasEdge(Edge(MaskToTensorId(l), "mask", NegativeCondId(l), "mask"))
       /\ HasEdge(Edge(NegativeCondId(l), "conditioning", NEGATIVE_CONDITIONING_COLLECT, "item"))
  /\ InvertTensorMaskId(l) \in DOMAIN graph.nodes
       <=> (l.autoNegative = "invert" /\ Truthy(l.textPrompt.positive))
  /\ PositiveCondInvertedId(l) \in DOMAIN graph.nodes
       <=> (l.autoNegative = "invert" /\ Truthy(l.textPrompt.positive))
  /\ (l.autoNegative = "invert" /\ Truthy(l.textPrompt.positive)) =>
       /\ graph.nodes[PositiveCondInvertedId(l)].prompt = l.textPrompt.positive
       /\ HasEdge(Edge(MaskToTensorId(l), "mask", InvertTensorMaskId(l), "mask"))
       /\ HasEdge(Edge(InvertTensorMaskId(l), "mask", PositiveCondInvertedId(l), "mask"))
       /\ HasEdge(Edge(PositiveCondInvertedId(l), "conditioning",
                       NEGATIVE_CONDITIONING_COLLECT, "item"))

\* the graph holds no node of a layer and no edge from or to one
LayerAbsent(l) ==
  /\ LayerNodeIds(l) \cap DOMAIN graph.nodes = {}
  /\ \A k \in 1..Len(graph.edges) :
       /\ graph.edges[k].source.node_id \notin LayerNodeIds(l)
       /\ graph.edges[k].destination.node_id \notin LayerNodeIds(l)

\* the collect nodes are in the graph, between the global conditioning nodes
\* and the denoiser, and the nodes of the graph handed over are still there
CollectorsSpliced ==
  /\ {POSITIVE_CONDITIONING_COLLECT, NEGATIVE_CONDITIONING_COLLECT} \subseteq DOMAIN graph.nodes
  /\ DOMAIN BaseGraph(isSDXL).nodes \subseteq DOMAIN graph.nodes
  /\ DenoiserFedByCollectors
  /\ HasEdge(Edge(POSITIVE_CONDITIONING, "conditioning", POSITIVE_CONDITIONING_COLLECT, "item"))
  /\ HasEdge(Edge(NEGATIVE_CONDITIONING, "conditioning", NEGATIVE_CONDITIONING_COLLECT, "item"))

\* C12: when the upload of the k-th filtered layer fails the pass throws with
\* uploads issued for layers 1..k only; the graph holds the collect nodes, the
\* rerouted denoiser edges, the collect-to-denoiser edges and the nodes and
\* edges of layers 1..k-1, and nothing of layers k and later: nothing done
\* before the failure is undone and nothing is added after it.
C12_UploadFailureKeepsPartialGraph ==
  (pc = "threw" /\ err = "upload") =>
    /\ cursor \in 1..Len(spLayers)
    /\ uploads = [j \in 1..cursor |-> spLayers[j].id]
    /\ CollectorsSpliced
    /\ \A j \in 1..(cursor - 1) : LayerSpliced(spLayers[j])
    /\ \A j \in cursor..Len(spLayers) : LayerAbsent(spLayers[j])

\* C12 witness: the upload of the second filtered layer failed after the first
\* layer's nodes went into the graph.
C12_Witness ==
  /\ pc = "threw"
  /\ err = "upload"
  /\ cursor = 2
  /\ LayerSpliced(spLayers[1])
  /\ PositiveCondId(spLayers[1]) \in DOMAIN graph.nodes

\* C13: with the enabled flag false the call returns at once: it issues no
\* upload and leaves the node map and the edge list of the graph as they were
\* handed over, whatever layers the store holds.
C13_DisabledLeavesGraphUntouched ==
  (~state.isEnabled /\ pc # "idle") =>
    /\ pc = "returned"
    /\ uploads = <<>>
    /\ graph = BaseGraph(isSDXL)

\* C13 witness: the call returned on a disabled feature whose store holds a
\* visible layer with a prompt.
C13_Witness ==
  /\ ~state.isEnabled
  /\ pc = "returned"
  /\ \E k \in 1..Len(state.layers) : PassesFilter(state.layers[k])

\* a set of nodes from which the nodes without an edge to another node of the
\* set can be taken away, again and again, until none is left
RECURSIVE Peels(_)
Peels(nodes) ==
  LET sinks == {n \in nodes :
                  \A k \in 1..Len(graph.edges) :
                    graph.edges[k].source.node_id = n
                      => graph.edges[k].destination.node_id \notin nodes}
  IN IF nodes = {} THEN TRUE
     ELSE IF sinks = {} THEN FALSE
     ELSE Peels(nodes \ sinks)

Acyclic == Peels(DOMAIN graph.nodes)

\* a pass that ran on an enabled feature and returned
Spliced == pc = "returned" /\ state.isEnabled

\* C14: in a successful pass the edges of the graph handed over stay in place
\* and in order, those into the denoiser's positive (negative) conditioning
\* input now ending in the item input of the positive (negative) collect node,
\* and the two collect-to-denoiser edges come right after them. So each
\* conditioning input of the denoiser has exactly one incoming edge, from its
\* collect node, no edge leads from a collect node into a collect node's item
\* input, and the graph, acyclic when handed over, is acyclic.
C14_RerouteThenConnect ==
  Spliced =>
    LET base == BaseGraph(isSDXL).edges
        n == Len(base)
    IN /\ Len(graph.edges) >= n + 2
       /\ \A k \in 1..n :
            /\ graph.edges[k].source = base[k].source
            /\ graph.edges[k].destination =
                 IF base[k].destination = [node_id |-> DenoiseNodeId, field |-> "positive_conditioning"]
                 THEN [node_id |-> POSITIVE_CONDITIONING_COLLECT, field |-> "item"]
                 ELSE IF base[k].destination
                           = [node_id |-> DenoiseNodeId, field |-> "negative_conditioning"]
                      THEN [node_id |-> NEGATIVE_CONDITIONING_COLLECT, field |-> "item"]
                      ELSE base[k].destination
       /\ graph.edges[n + 1] = Edge(POSITIVE_CONDITIONING_COLLECT, "collection",
                                    DenoiseNodeId, "positive_conditioning")
       /\ graph.edges[n + 2] = Edge(NEGATIVE_CONDITIONING_COLLECT, "collection",
                                    DenoiseNodeId, "negative_conditioning")
       /\ DenoiserFedByCollectors
       /\ \A k \in 1..Len(graph.edges) :
            graph.edges[k].source.node_id
              \in {POSITIVE_CONDITIONING_COLLECT, NEGATIVE_CONDITIONING_COLLECT}
            => graph.edges[k].destination.node_id
                 \notin {POSITIVE_CONDITIONING_COLLECT, NEGATIVE_CONDITIONING_COLLECT}
       /\ Acyclic

\* C14 witness: a pass over two filtered layers returned, with both collect
\* nodes between the global conditioning nodes and the denoiser.
C14_Witness ==
  /\ Spliced
  /\ Len(spLayers) = 2
  /\ HasEdge(Edge(POSITIVE_CONDITIONING, "conditioning", POSITIVE_CONDITIONING_COLLECT, "item"))
  /\ HasEdge(Edge(NEGATIVE_CONDITIONING, "conditioning", NEGATIVE_CONDITIONING_COLLECT, "item"))

\* C15: the uploads issued are those of the first filtered layers, one each, in
\* list order. While an upload is awaited it is the only one not completed: it
\* is that of the layer the loop stands on, every layer before it has had its
\* upload completed and its nodes and edges inserted, and no later layer has an
\* upload or anything in the graph. A pass that returns has uploaded every
\* filtered layer.
C15_UploadsOneAtATime ==
  /\ Len(uploads) <= Len(spLayers)
  /\ uploads = [j \in 1..Len(uploads) |-> spLayers[j].id]
  /\ pc = "upload" =>
       /\ cursor \in 1..Len(spLayers)
       /\ Len(uploads) = cursor
       /\ \A j \in 1..(cursor - 1) : LayerSpliced(spLayers[j])
       /\ \A j \in cursor..Len(spLayers) : LayerAbsent(spLayers[j])
  /\ Spliced =>
       /\ Len(uploads) = Len(spLayers)
       /\ \A j \in 1..Len(spLayers) : LayerSpliced(spLayers[j])

\* C15 witness: the upload of the second filtered layer is awaited, after the
\* first layer's upload completed and its nodes went into the graph.
C15_Witness ==
  /\ pc = "upload"
  /\ cursor = 2
  /\ Len(uploads) = 2
  /\ MaskToTensorId(spLayers[1]) \in DOMAIN graph.nodes

\* a regional node, when it is in the graph, has exactly one incoming edge for
\* each edge into the global node on a field other than prompt, with that
\* edge's source and field
FedLike(regionalId, globalId) ==
  regionalId \in DOMAIN graph.nodes =>
    \A k \in AllEdgesInto(globalId) :
      graph.edges[k].destination.field # "prompt" =>
        Cardinality({m \in EdgesInto(regionalId, graph.edges[k].destination.field) :
                       graph.edges[m].source = graph.edges[k].source}) = 1

\* C16: after a successful pass, whatever the number of filtered layers, every
\* regional positive conditioning node and every inverted-mask conditioning
\* node has exactly one incoming edge for each non-prompt edge into the global
\* positive conditioning node, with the same source and field, and every
\* regional negative conditioning node has the same for the global negative
\* conditioning node.
C16_SharedInputsFanOut ==
  Spliced =>
    \A j \in 1..Len(spLayers) :
      /\ FedLike(PositiveCondId(spLayers[j]), POSITIVE_CONDITIONING)
      /\ FedLike(PositiveCondInvertedId(spLayers[j]), POSITIVE_CONDITIONING)
      /\ FedLike(NegativeCondId(spLayers[j]), NEGATIVE_CONDITIONING)

\* C16 witness: a pass returned on an SDXL graph with two filtered layers that
\* each have all three regional conditioning nodes.
C16_Witness ==
  /\ Spliced
  /\ isSDXL
  /\ Len(spLayers) = 2
  /\ \A j \in 1..2 :
       {PositiveCondId(spLayers[j]), NegativeCondId(spLayers[j]),
        PositiveCondInvertedId(spLayers[j])} \subseteq DOMAIN graph.nodes
  /\ Cardinality(AllEdgesInto(PositiveCondInvertedId(spLayers[2]))) = 3

\* whether an edge is one the copy loop for a global node copies
IsCopySource(e, globalId) ==
  e.destination.node_id = globalId /\ e.destination.field # "prompt"

\* the copy loop of a regional node starts right after the edge from that node
\* to its collect node, at position p of the edge list. The loop has copied the
\* edges that were copy sources when it started, each once and in their order,
\* to the positions after p, and nothing else: no edge it appended is a copy
\* source, and the edge after its last copy does not end in the regional node.
CopiedFromSnapshot(regionalId, globalId, collectId) ==
  regionalId \in DOMAIN graph.nodes =>
    \E p \in 1..Len(graph.edges) :
      /\ graph.edges[p] = Edge(regionalId, "conditioning", collectId, "item")
      /\ LET sources == {k \in 1..p : IsCopySource(graph.edges[k], globalId)}
             c == Cardinality(sources)
         IN /\ Len(graph.edges) >= p + c
            /\ \A k \in sources :
                 LET n == Cardinality({m \in sources : m <= k})
                 IN graph.edges[p + n] =
                      [ source |-> graph.edges[k].source,
                        destination |-> [node_id |-> regionalId,
                                         field |-> graph.edges[k].destination.field] ]
            /\ \A m \in (p + 1)..(p + c) : ~IsCopySource(graph.edges[m], globalId)
            /\ Len(graph.edges) > p + c =>
                 graph.edges[p + c + 1].destination.node_id # regionalId
            /\ Cardinality(AllEdgesInto(regionalId)) = c + 1

\* C17: each edge-copy loop, which appends to the edge list it reads, ends
\* having appended one copy for each edge that was a copy source when it
\* started (an edge into the global conditioning node on a field other than
\* prompt), and none for an edge it appended itself.
C17_CopyLoopsReadASnapshot ==
  \A j \in 1..Len(spLayers) :
    /\ CopiedFromSnapshot(PositiveCondId(spLayers[j]), POSITIVE_CONDITIONING,
                          POSITIVE_CONDITIONING_COLLECT)
    /\ CopiedFromSnapshot(NegativeCondId(spLayers[j]), NEGATIVE_CONDITIONING,
                          NEGATIVE_CONDITIONING_COLLECT)
    /\ CopiedFromSnapshot(PositiveCondInvertedId(spLayers[j]), POSITIVE_CONDITIONING,
                          NEGATIVE_CONDITIONING_COLLECT)

\* C17 witness: the copy loops of the positive and of the inverted node of a
\* second layer have run on an SDXL graph, each appending two edges to a list
\* that already held the first layer's copies.
C17_Witness ==
  /\ Spliced
  /\ isSDXL
  /\ Len(spLayers) = 2
  /\ PositiveCondId(spLayers[1]) \in DOMAIN graph.nodes
  /\ {PositiveCondId(spLayers[2]), PositiveCondInvertedId(spLayers[2])}
       \subseteq DOMAIN graph.nodes
  /\ Cardinality(AllEdgesInto(PositiveCondId(spLayers[2]))) = 3

UploadsOf(l) == {u \in 1..Len(uploads) : uploads[u] = l.id}

\* C18: after a successful pass, a layer of the store that is not visible, or
\* has no positive prompt, no negative prompt and no image prompt, has no
\* upload and no node or edge in the graph; every other layer has exactly one
\* upload and one mask-decode node, a regional positive node iff its positive
\* prompt is not empty, a regional negative node iff its negative prompt is not
\* empty, and a mask-inversion node with an inverted conditioning node iff its
\* auto-negative is invert and its positive prompt is not empty.
C18_OnlyFilteredLayersAreSpliced ==
  Spliced =>
    \A k \in 1..Len(state.layers) :
      LET l == state.layers[k]
      IN IF \/ ~l.isVisible
            \/ (l.textPrompt.positive = "" /\ l.textPrompt.negative = "" /\ l.imagePrompts = <<>>)
         THEN UploadsOf(l) = {} /\ LayerAbsent(l)
         ELSE Cardinality(UploadsOf(l)) = 1 /\ LayerSpliced(l)

\* C18 witness: a pass returned on a store with an invisible layer that has a
\* prompt and a visible layer that has an image prompt and no text prompt.
C18_Witness ==
  /\ Spliced
  /\ \E k \in 1..Len(state.layers) :
       ~state.layers[k].isVisible /\ Truthy(state.layers[k].textPrompt.positive)
  /\ \E k \in 1..Len(state.layers) :
       /\ state.layers[k].isVisible
       /\ state.layers[k].textPrompt = [positive |-> "", negative |-> ""]
       /\ state.layers[k].imagePrompts # <<>>
       /\ MaskToTensorId(state.layers[k]) \in DOMAIN graph.nodes

\* the types of the last actions dispatched to the undoable store, oldest first
LastTypes(n) ==
  IF Len(trace) < n THEN <<>>
  ELSE [j \in 1..n |-> trace[Len(trace) - n + j].type]

\* the j-th of the last n actions dispatched to the undoable store
LastOf(n, j) == trace[Len(trace) - n + j]

\* C19: a set-bbox action adds no history entry, keeps the redo entries and
\* keeps the group token. A set-bbox between an add-line and an append-point
\* on the same layer leaves both in one history entry; after an undo that went
\* a step back and a set-bbox, the redo entries are still there and a redo
\* brings the history back to the length it had.
C19_BboxChangeIsTransient ==
  /\ LastTypes(1) = <<"layerBboxChanged">> =>
       /\ history.past = LastOf(1, 1).before.past
       /\ history.future = LastOf(1, 1).before.future
       /\ history.group = LastOf(1, 1).before.group
  /\ ( /\ LastTypes(3) = <<"maskLayerLineAdded", "layerBboxChanged", "maskLayerPointsAdded">>
       /\ LastOf(3, 1).layerId = LastOf(3, 3).layerId
       /\ LastOf(3, 1).layerId \in LayerIds(state) ) =>
       /\ history.past = LastOf(3, 2).before.past
       /\ Len(history.past) = Len(LastOf(3, 1).before.past) + 1
       /\ history.group = LastOf(3, 2).before.group
       /\ history.group \in {LINE_1, LINE_2}
  /\ ( /\ LastTypes(2) = <<"undo", "layerBboxChanged">>
       /\ LastOf(2, 1).before.past # <<>> ) =>
       /\ history.future # <<>>
       /\ Len(history.future) = Len(LastOf(2, 1).before.future) + 1
  /\ ( /\ LastTypes(3) = <<"undo", "layerBboxChanged", "redo">>
       /\ LastOf(3, 1).before.past # <<>> ) =>
       /\ Len(history.past) = Len(LastOf(3, 1).before.past)
       /\ history.future = LastOf(3, 1).before.future

\* C19 witness: a set-bbox that changed the layer came between an add-line and
\* an append-point on it, and the history holds the add-layer and one stroke.
C19_Witness ==
  /\ LastTypes(4) = <<"layerAdded", "maskLayerLineAdded", "layerBboxChanged", "maskLayerPointsAdded">>
  /\ \A j \in 2..4 : LastOf(4, j).layerId = LastOf(4, 1).layerId
  /\ Len(history.past) = 2
  /\ state.layers[1].bbox = Rect1
  /\ Len(state.layers[1].objects[1].points) = 6

\* the kinds of action that collapse with the same kind
ContinuousKinds ==
  {"layerTranslated", "brushSizeChanged", "globalMaskLayerOpacityChanged", "isEnabledChanged",
   "maskLayerPositivePromptChanged", "maskLayerNegativePromptChanged",
   "maskLayerPreviewColorChanged"}

\* the history entries the first i actions of a trace should make, each as the
\* kinds of the actions in it: an action of a continuous kind joins the entry
\* before it when that entry is of its kind, an append-point joins the entry of
\* a stroke, anything else starts an entry. With every = FALSE the actions that
\* left the state as it was are passed over.
RECURSIVE ExpectedEntries(_, _, _)
ExpectedEntries(tr, i, every) ==
  IF i = 0 THEN <<>>
  ELSE LET sofar == ExpectedEntries(tr, i - 1, every)
           n == Len(sofar)
       IN IF ~every /\ ~tr[i].changed THEN sofar
          ELSE IF /\ n > 0
                  /\ \/ tr[i].type \in ContinuousKinds /\ sofar[n][1] = tr[i].type
                     \/ tr[i].type = "maskLayerPointsAdded" /\ sofar[n][1] = "maskLayerLineAdded"
               THEN [sofar EXCEPT ![n] = Append(@, tr[i].type)]
               ELSE Append(sofar, <<tr[i].type>>)

\* each entry of the history has the group token of its kind
EntriesHaveTheirGroups ==
  /\ Len(history.past) = Len(entries)
  /\ \A k \in 1..Len(entries) :
       IF entries[k].types[1] \in ContinuousKinds
       THEN entries[k].group = entries[k].types[1]
       ELSE IF entries[k].types[1] = "maskLayerLineAdded"
            THEN entries[k].group \in {LINE_1, LINE_2}
            ELSE entries[k].group = NoGroup

PaletteMatches(c) ==
  {k \in 0..(Len(COLORS) - 1) :
     /\ COLORS[k + 1].r = c.r
     /\ COLORS[k + 1].g = c.g
     /\ COLORS[k + 1].b = c.b}

\* the index the cycler should stand on after next(c) called at index i
SuccessorIndex(i, c) ==
  IF c # NoColor /\ PaletteMatches(c) # {}
  THEN ((CHOOSE k \in PaletteMatches(c) : TRUE) + 1) % Len(COLORS)
  ELSE (i + 1) % Len(COLORS)

\* C21: an add-layer of the vector mask kind appends one layer at the end of
\* the list and selects it; the layer's colour is the palette successor of the
\* last layer's colour when that colour is a palette colour at any alpha (the
\* fourth after the third, the first after the last), and otherwise, also when
\* there is no layer, the palette successor of the cycler's index; the cycler
\* is left on the colour it gave. An add-layer of another kind leaves the store
\* state and the cycler as they were.
C21_AddLayerTakesSuccessorColor ==
  Did("layerAdded") =>
    LET b == log[1].before
        n == Len(b.layers)
        want == SuccessorIndex(log[1].idx, LastColor(b))
    IN IF log[1].arg # "vector_mask_layer"
       THEN state = b /\ colorIdx = log[1].idx
       ELSE /\ Len(state.layers) = n + 1
            /\ SubSeq(state.layers, 1, n) = b.layers
            /\ state.layers[n + 1].id = log[1].layerId
            /\ state.selectedLayerId = log[1].layerId
            /\ state.layers[n + 1].previewColor = COLORS[want + 1]
            /\ colorIdx = want
            /\ [state EXCEPT !.layers = b.layers, !.selectedLayerId = b.selectedLayerId] = b

\* C21 witness: a layer was added after a layer whose colour is the last
\* palette colour at another alpha, and got the first palette colour.
C21_Witness ==
  /\ Did("layerAdded")
  /\ log[1].arg = "vector_mask_layer"
  /\ LastColor(log[1].before) = [COLORS[Len(COLORS)] EXCEPT !.a = 50]
  /\ LastColor(state) = COLORS[1]
  /\ colorIdx = 0

KeptOnDelete(l) == l.id # log[1].layerId

\* C23: after any delete-layer action, whether or not the named layer was in
\* the list and whether or not it was the selected one, the list holds the
\* layers it held before other than the named one, unchanged and in the same
\* order; selectedLayerId is the id of the first of them, and is null exactly
\* when there is none; nothing else in the state changes.
C23_DeleteSelectsFirstRemaining ==
  Did("layerDeleted") =>
    LET b == log[1].before
    IN /\ state.layers = SelectSeq(b.layers, KeptOnDelete)
       /\ (state.selectedLayerId = Null) <=> (state.layers = <<>>)
       /\ state.layers # <<>> => state.selectedLayerId = state.layers[1].id
       /\ [state EXCEPT !.layers = b.layers, !.selectedLayerId = b.selectedLayerId] = b

\* C23 witness: a delete-layer naming a layer that is not in the list moved the
\* selection from the second layer to the first.
C23_Witness ==
  /\ Did("layerDeleted")
  /\ log[1].layerId \notin LayerIds(log[1].before)
  /\ Len(state.layers) = 2
  /\ log[1].before.selectedLayerId = state.layers[2].id
  /\ state.selectedLayerId = state.layers[1].id

\* both ends of every edge of the graph are keys of its node map
EdgesClosed(g) ==
  \A k \in 1..Len(g.edges) :
    /\ g.edges[k].source.node_id \in DOMAIN g.nodes
    /\ g.edges[k].destination.node_id \in DOMAIN g.nodes

\* the graphs a pass goes through from the state it is suspended in up to its
\* next suspension: after the collect nodes, the reroute and the collect edges
\* when it waits for the blobs, and after each block of the loop body when it
\* waits for an upload
StagesAhead ==
  IF pc = "blobs"
  THEN {InsertCollectors(graph), Reroute(InsertCollectors(graph)), SpliceCollectors(graph)}
  ELSE IF pc = "upload"
  THEN LET l == spLayers[cursor]
           g1 == AddMaskToTensor(graph, l, "mask.png")
           g2 == AddPositiveCond(g1, isSDXL, l)
           g3 == AddNegativeCond(g2, isSDXL, l)
       IN {g1, g2, g3, AddInvertedCond(g3, isSDXL, l)}
  ELSE {}

\* C24: wherever a splicing pass stands, also after it aborted on a missing
\* blob or a failed upload, and after every block of statements it runs next,
\* both ends of every edge of the graph are keys of the graph's node map; the
\* base graph has this property and holds the global conditioning nodes and the
\* denoiser.
C24_EdgesStayInsideNodeMap ==
  /\ EdgesClosed(graph)
  /\ \A g \in StagesAhead : EdgesClosed(g)

\* C24 witness: the pass aborted at its second layer with the first layer's
\* nodes and edges in the graph, copies of the global edges among them.
C24_Witness ==
  /\ pc = "threw"
  /\ err \in {"assert blob", "upload"}
  /\ cursor = 2
  /\ EdgesClosed(BaseGraph(isSDXL))
  /\ {POSITIVE_CONDITIONING, NEGATIVE_CONDITIONING, DenoiseNodeId} \subseteq DOMAIN BaseGraph(isSDXL).nodes
  /\ \E k \in 1..Len(graph.edges) :
       /\ graph.edges[k].destination.node_id = PositiveCondInvertedId(spLayers[1])
       /\ graph.edges[k].source.node_id \in DOMAIN BaseGraph(isSDXL).nodes
  /\ \E k \in 1..Len(graph.edges) :
       graph.edges[k].destination.node_id = NEGATIVE_CONDITIONING_COLLECT

\* C25: when the blob mapping that comes back has another number of entries
\* than there are filtered layers, the call throws on the size assertion, with
\* the node map and the edge list as they were handed over (no collect node,
\* no edge rerouted) and no upload issued; the size assertion throws in no
\* other case.
C25_SizeMismatchThrowsBeforeAnyChange ==
  /\ (BlobsHandedOver /\ Cardinality(blobs) # Len(spLayers)) =>
       /\ pc = "threw"
       /\ err = "assert size"
       /\ graph = BaseGraph(isSDXL)
       /\ POSITIVE_CONDITIONING_COLLECT \notin DOMAIN graph.nodes
       /\ NEGATIVE_CONDITIONING_COLLECT \notin DOMAIN graph.nodes
       /\ uploads = <<>>
  /\ err = "assert size" => (BlobsHandedOver /\ Cardinality(blobs) # Len(spLayers))

\* C25 witness: two filtered layers, one blob: the call threw on the sizes.
C25_Witness ==
  /\ pc = "threw"
  /\ err = "assert size"
  /\ Len(spLayers) = 2
  /\ Cardinality(blobs) = 1
  /\ graph = BaseGraph(isSDXL)

\* the call is suspended at an await, or anywhere else short of its end
PassPending == pc \notin {"idle", "returned", "threw"}

PassEnded == pc \in {"returned", "threw"}

\* C22: when the blob lookup and every upload the call waits for respond, a
\* call that was started ends: it returns or it throws. When it returns with
\* the feature enabled it has gone through all the filtered layers, one upload
\* each.
C22_PassEnds ==
  /\ PassPending ~> PassEnded
  /\ [](pc = "returned" /\ state.isEnabled =>
          /\ cursor = Len(spLayers) + 1
          /\ Len(uploads) = Len(spLayers))

\* C22 witness: a call over two filtered layers returned after two uploads.
C22_Witness ==
  /\ pc = "returned"
  /\ state.isEnabled
  /\ Len(spLayers) = 2
  /\ cursor = 3
  /\ Len(uploads) = 2

=============================================================================
